---------------------------- MODULE Spec2Model ----------------------------
(***************************************************************************)
(* Weather-similarity and impact-aggregation engine of                     *)
(* weather_impact_analysis/knn_analyzer.py (classes WeatherKNN and         *)
(* AssetImpactAnalyzer) and the tool functions of agent.py that call it,   *)
(* with the layer around it: AuthManager (auth_manager.py), the work-order *)
(* and work-activity managers (work_order.py, work_activity.py) and the    *)
(* DetectionProcessor of image_analysis/roboflow_detector.py.              *)
(*                                                                         *)
(* Arithmetic.  pandas computes mean and std in floating point; the model  *)
(* keeps them exact: a mean is the fraction num/den, a standard deviation  *)
(* is kept as its square, the fraction num/den (sample variance, ddof=1).  *)
(* A normalized value (v - mean)/std of column c is kept as the integer    *)
(* num = v*n - sum(c), i.e. in units of 1/(n*std_c), and a distance as the *)
(* squared Euclidean distance multiplied by the positive factor            *)
(* n/(n-1) * (product of the variance numerators of the columns whose std  *)
(* is > 0), which is the same for every distance of one load.  Ordering    *)
(* and zero-ness of distances are those of the exact real numbers;         *)
(* floating-point rounding is not modelled.                                *)
(***************************************************************************)
EXTENDS Integers, Sequences, FiniteSets, TLC

VARIABLES
    k,                    \* WeatherKNN.k
    historical_events,    \* WeatherKNN.historical_events (None or a table)
    feature_stats,        \* WeatherKNN.feature_stats (column -> mean, std)
    normalized_features,  \* WeatherKNN.normalized_features (None or a matrix)
    current_event,        \* argument of the last find_similar_events call
    result,               \* what the last WeatherKNN operation returned or raised
    assets,               \* AssetImpactAnalyzer.assets (the asset registry)
    incidents,            \* AssetImpactAnalyzer.incidents (the incident log)
    event_ids,            \* argument of the last analyze_affected_assets call
    affected_assets,      \* the table get_affected_assets returned in that call
    analysis,             \* what the last analyze_affected_assets call returned
    loader,               \* a thread inside load_historical_data: its position and locals
    reader,               \* a thread inside find_similar_events: its position and locals
    clock,                \* the day datetime.now() falls on
    by_asset_type,        \* argument of the last predict_at_risk_assets call
    called_on,            \* what datetime.now() returned in that call
    at_risk,              \* what the last predict_at_risk_assets call returned
    previous,             \* argument and return value of the call before the last
    caller_df,            \* the caller's table that was passed to load_historical_data
    details,              \* what the last get_event_details / tool call returned
    token,                \* AuthManager._token
    auth,                 \* the last AuthManager call, what it returned, requests sent
    work_order_id,        \* tool_context.state["work_order_id"] of the session
    tool,                 \* the tool function the agent called last
    last_call,            \* the last tool call: its payload and what it returned
    last_order,           \* status and id the last create_work_order call returned
    detection,            \* the detection result passed to DetectionProcessor.process
    processed             \* what the last process call returned or raised

knnVars == <<k, historical_events, feature_stats, normalized_features,
             current_event, result>>

impactVars == <<assets, incidents, event_ids, affected_assets, analysis>>

threadVars == <<loader, reader>>

riskVars == <<clock, by_asset_type, called_on, at_risk, previous>>

callerVars == <<caller_df, details>>

authVars == <<token, auth>>

workVars == <<work_order_id, tool, last_call, last_order>>

detectVars == <<detection, processed>>

---------------------------------------------------------------------------
(* Bounds and input fixtures *)

MaxEvents == 3    \* longest historical table that is loaded
MaxK == 3         \* largest k the analyzer is constructed with
MaxIncidents == 3 \* longest incident log the impact analyzer is built with
MaxReloads == 1   \* reloads of the historical data after the first load

\* The five feature columns, in the fixed order of self.feature_columns:
\* 1 temperature_c, 2 wind_speed_kmh, 3 precipitation_mm,
\* 4 humidity_percent, 5 duration_hours.
feature_columns == <<1, 2, 3, 4, 5>>

NumFeatures == Len(feature_columns)

\* Feature rows that historical tables are built from.  Column 3 is the same
\* in every row (a zero-std column in every table); the first two rows are
\* symmetric around the query <<1,0,1,1,3>>.
EventRows ==
    { <<0, 0, 1, 1, 3>>,
      <<2, 0, 1, 1, 3>>,
      <<1, 1, 1, 2, 4>> }

\* Query events: duplicates of historical rows, a query equidistant from two
\* rows, and queries that differ from every row in the constant column.
QueryRows ==
    { <<0, 0, 1, 1, 3>>,
      <<1, 0, 1, 1, 3>>,
      <<1, 1, 5, 1, 3>>,
      <<1, 1, 1, 2, 4>>,
      <<0, 2, 4, 0, 3>> }

\* event_id of the row at each position of a table: ids are unique and
\* neither ascending nor equal to the row position.
EventIdAt == <<40, 70, 30, 60, 20, 50>>

Min(a, b) == IF a < b THEN a ELSE b

Max(a, b) == IF a < b THEN b ELSE a

\* A pandas DataFrame of historical events with the rows `rows`.
EventsTable(rows) ==
    [i \in 1..Len(rows) |-> [event_id |-> EventIdAt[i], features |-> rows[i]]]

RowSeqs(n) == [1..n -> EventRows]

EventTables == UNION { { EventsTable(rows) : rows \in RowSeqs(n) } : n \in 0..MaxEvents }

\* Python's None and a present value, kept apart from an empty table.
None == [none |-> TRUE, rows |-> <<>>]

Some(rows) == [none |-> FALSE, rows |-> rows]

---------------------------------------------------------------------------
(* pandas / numpy primitives *)

RECURSIVE SumSeq(_)
SumSeq(s) == IF s = <<>> THEN 0 ELSE Head(s) + SumSeq(Tail(s))

Column(df, col) == [i \in 1..Len(df) |-> df[i].features[col]]

\* Series.mean(): sum/n, NaN for an empty column.
SeriesMean(xs) ==
    IF Len(xs) = 0
    THEN [nan |-> TRUE, num |-> 0, den |-> 1]
    ELSE [nan |-> FALSE, num |-> SumSeq(xs), den |-> Len(xs)]

\* Series.std() (ddof = 1), kept as its square
\* (n*sum(x^2) - sum(x)^2) / (n*(n-1)); NaN for fewer than two rows.
SeriesStd(xs) ==
    LET n == Len(xs) IN
    IF n < 2
    THEN [nan |-> TRUE, num |-> 0, den |-> 1]
    ELSE [nan |-> FALSE,
          num |-> n * SumSeq([i \in 1..n |-> xs[i] * xs[i]]) - SumSeq(xs) * SumSeq(xs),
          den |-> n * (n - 1)]

\* `std > 0`: False for 0 and for NaN.
StdPositive(st) == ~st.std.nan /\ st.std.num > 0

\* The statistics dictionary entry of one column (lines 52-55).
ColumnStats(df, col) ==
    [mean |-> SeriesMean(Column(df, col)), std |-> SeriesStd(Column(df, col))]

\* The statistics loop skipped for a table without rows: the statistics
\* dictionary stays empty.
LoadStatsSkipEmpty(df) ==
    IF Len(df) = 0 THEN <<>>
    ELSE <<ColumnStats(df, feature_columns[1]), ColumnStats(df, feature_columns[2]),
           ColumnStats(df, feature_columns[3]), ColumnStats(df, feature_columns[4]),
           ColumnStats(df, feature_columns[5])>>

\* Lines 51-55: the statistics of the five columns, in column order.
LoadStats(df) ==
    <<ColumnStats(df, feature_columns[1]), ColumnStats(df, feature_columns[2]),
      ColumnStats(df, feature_columns[3]), ColumnStats(df, feature_columns[4]),
      ColumnStats(df, feature_columns[5])>>

\* (value - mean) / std with the guard left out: division by a zero or NaN
\* std gives NaN or an infinity.
NormalizeValueUnguarded(value, st) ==
    IF StdPositive(st)
    THEN [nan |-> FALSE, num |-> value * st.mean.den - st.mean.num]
    ELSE [nan |-> TRUE, num |-> 0]

\* One cell of the z-score normalization (lines 77-82 and 117-122):
\* (value - mean) / std if std > 0, else 0.
NormalizeValue(value, st) ==
    IF StdPositive(st)
    THEN [nan |-> FALSE, num |-> value * st.mean.den - st.mean.num]
    ELSE [nan |-> FALSE, num |-> 0]

\* The normalization with the statistics of the first two columns exchanged.
normalize_features_swapped(df, stats) ==
    [i \in 1..Len(df) |->
        <<NormalizeValue(df[i].features[1], stats[2]),
          NormalizeValue(df[i].features[2], stats[1]),
          NormalizeValue(df[i].features[3], stats[3]),
          NormalizeValue(df[i].features[4], stats[4]),
          NormalizeValue(df[i].features[5], stats[5])>>]

\* _normalize_features: the matrix of a table under the statistics `stats`.
normalize_features(df, stats) ==
    [i \in 1..Len(df) |->
        <<NormalizeValue(df[i].features[1], stats[1]),
          NormalizeValue(df[i].features[2], stats[2]),
          NormalizeValue(df[i].features[3], stats[3]),
          NormalizeValue(df[i].features[4], stats[4]),
          NormalizeValue(df[i].features[5], stats[5])>>]

\* The query normalization with the mean left out: value / std.
NormalizeCurrentNoMean(event, stats) ==
    [c \in 1..NumFeatures |->
        IF StdPositive(stats[c])
        THEN [nan |-> FALSE, num |-> event[c] * stats[c].mean.den]
        ELSE [nan |-> FALSE, num |-> 0]]

\* Lines 110-122: the query event normalized with the historical statistics.
NormalizeCurrent(event, stats) ==
    <<NormalizeValue(event[1], stats[1]), NormalizeValue(event[2], stats[2]),
      NormalizeValue(event[3], stats[3]), NormalizeValue(event[4], stats[4]),
      NormalizeValue(event[5], stats[5])>>

\* The factor each column's squared difference carries in a distance (see the
\* top): the product of the variance numerators of the other columns whose
\* std is > 0; a column whose std is not > 0 holds 0 in every point.
RECURSIVE ProdOthers(_, _, _)
ProdOthers(stats, c, j) ==
    IF j > NumFeatures THEN 1
    ELSE (IF j # c /\ StdPositive(stats[j]) THEN stats[j].std.num ELSE 1)
         * ProdOthers(stats, c, j + 1)

ColumnScale(stats) ==
    <<ProdOthers(stats, 1, 1), ProdOthers(stats, 2, 1), ProdOthers(stats, 3, 1),
      ProdOthers(stats, 4, 1), ProdOthers(stats, 5, 1)>>

Sq(x) == x * x

\* _euclidean_distance: sqrt(sum((point1 - point2) ** 2)), as the scaled
\* squared distance described at the top; NaN if a coordinate is NaN.
euclidean_distance(point1, point2, scale) ==
    [nan |-> \E c \in 1..NumFeatures : point1[c].nan \/ point2[c].nan,
     d2  |-> Sq(point1[1].num - point2[1].num) * scale[1]
             + Sq(point1[2].num - point2[2].num) * scale[2]
             + Sq(point1[3].num - point2[3].num) * scale[3]
             + Sq(point1[4].num - point2[4].num) * scale[4]
             + Sq(point1[5].num - point2[5].num) * scale[5]]

\* x[1] < y[1] on floats: False as soon as one side is NaN.
DistLess(a, b) == ~a.nan /\ ~b.nan /\ a.d2 < b.d2

\* Insertion that puts x before elements of equal key (not stable).
InsertBeforeEqual(sorted, x) ==
    LET later == { i \in 1..Len(sorted) : ~DistLess(sorted[i].distance, x.distance) }
        pos == IF later = {} THEN Len(sorted) + 1
               ELSE CHOOSE i \in later : \A j \in later : i <= j
    IN SubSeq(sorted, 1, pos - 1) \o <<x>> \o SubSeq(sorted, pos, Len(sorted))

\* One step of list.sort: x goes before the first element that is strictly
\* greater, hence after every element of equal key (stable).
InsertSorted(sorted, x) ==
    LET later == { i \in 1..Len(sorted) : DistLess(x.distance, sorted[i].distance) }
        pos == IF later = {} THEN Len(sorted) + 1
               ELSE CHOOSE i \in later : \A j \in later : i <= j
    IN SubSeq(sorted, 1, pos - 1) \o <<x>> \o SubSeq(sorted, pos, Len(sorted))

RECURSIVE SortPrefix(_, _)
SortPrefix(s, n) ==
    IF n = 0 THEN <<>> ELSE InsertSorted(SortPrefix(s, n - 1), s[n])

\* distances.sort(key=lambda x: x[1]) (line 135): Python's stable sort.
SortByDistance(s) == SortPrefix(s, Len(s))

\* A slice that drops one element too many.
SliceShort(s, n) == SubSeq(s, 1, Min(Max(n - 1, 0), Len(s)))

\* s[:n] (line 136); a negative n counts from the end.
Slice(s, n) ==
    IF n >= 0 THEN SubSeq(s, 1, Min(n, Len(s)))
    ELSE SubSeq(s, 1, Max(Len(s) + n, 0))

\* Lines 124-132: the (event_id, distance) pair of every historical row, in
\* row order.
Distances(events, matrix, scale, normalized_current) ==
    [idx \in 1..Len(matrix) |->
        [event_id |-> events[idx].event_id,
         distance |-> euclidean_distance(normalized_current, matrix[idx], scale)]]

\* find_similar_events as a function of the analyzer's fields.
FindSimilar(kk, events, stats, matrix, event) ==
    Slice(SortByDistance(Distances(events, matrix, ColumnScale(stats),
                                   NormalizeCurrent(event, stats))), kk)

---------------------------------------------------------------------------
(* WeatherKNN operations *)

\* The table stored as it is passed in: the analyzer's table and the
\* caller's table are one object.
DataFrameAlias(df) == [rows |-> df, same_object |-> TRUE]

\* events_df.copy() (line 48): a new object with the same rows.
DataFrameCopy(df) == [rows |-> df, same_object |-> FALSE]

\* WeatherKNN.__init__ (lines 22-39), for every k the bound allows.
InitKnn ==
    /\ k \in 1..MaxK
    /\ historical_events = None
    /\ normalized_features = None
    /\ feature_stats = <<>>
    /\ current_event = <<>>
    /\ result = [op |-> "init", status |-> "ok", value |-> <<>>]

\* load_historical_data(events_df), lines 41-62.
load_historical_data(events_df) ==
    /\ historical_events' = Some(DataFrameCopy(events_df).rows)
    /\ feature_stats' = LoadStats(events_df)
    /\ normalized_features' = Some(normalize_features(events_df, feature_stats'))
    /\ result' = [op |-> "load_historical_data", status |-> "ok", value |-> <<>>]
    /\ UNCHANGED <<k, current_event>>

\* find_similar_events(current_event), lines 99-136.  Before any load the
\* statistics dictionary is empty and line 117 raises KeyError.
find_similar_events(event) ==
    /\ current_event' = event
    /\ result' =
         IF Len(feature_stats) < NumFeatures
         THEN [op |-> "find_similar_events", status |-> "raised", value |-> <<>>]
         ELSE [op |-> "find_similar_events", status |-> "ok",
               value |-> FindSimilar(k, historical_events.rows, feature_stats,
                                     normalized_features.rows, event)]
    /\ UNCHANGED <<k, historical_events, feature_stats, normalized_features>>

---------------------------------------------------------------------------
(* AssetImpactAnalyzer: input fixtures *)

\* pandas' missing value in a column of the joined table.
NaN == "NaN"

\* The asset registry (assets.csv): unique codes, not in code order.
AssetRegistry ==
    << [code |-> "A2", name |-> "Pole 2", type |-> "Pole", criticality |-> "Low"],
       [code |-> "A1", name |-> "Pole 1", type |-> "Pole", criticality |-> "High"],
       [code |-> "A3", name |-> "Transformer 3", type |-> "Transformer",
        criticality |-> "Critical"] >>

\* Asset codes in ascending (string) order; "X9" is in no registry.
CodeOrder == <<"A1", "A2", "A3", "X9">>

CodeRank(code) == CHOOSE i \in 1..Len(CodeOrder) : CodeOrder[i] = code

\* Rows of the incident log (historical_incidents.csv); the fourth one
\* references an asset code that is not in the registry.
IncidentRows ==
    { [event_id |-> 40, asset_code |-> "A1", damage_severity |-> "Minor",
       repair_cost_usd |-> 100, downtime_hours |-> 2],
      [event_id |-> 40, asset_code |-> "A2", damage_severity |-> "Severe",
       repair_cost_usd |-> 200, downtime_hours |-> 4],
      [event_id |-> 70, asset_code |-> "A3", damage_severity |-> "Severe",
       repair_cost_usd |-> 400, downtime_hours |-> 8],
      [event_id |-> 70, asset_code |-> "X9", damage_severity |-> "Minor",
       repair_cost_usd |-> 50, downtime_hours |-> 3] }

IncidentLogs == UNION { [1..n -> IncidentRows] : n \in 0..MaxIncidents }

\* Event id lists passed to analyze_affected_assets; 99 matches no incident.
EventIdLists == SUBSET {40, 70, 99}

---------------------------------------------------------------------------
(* AssetImpactAnalyzer: pandas primitives and operations *)

\* The filter left out: every incident is kept.
FilterIncidentsAll(log, ids) == log

\* Lines 182-184: incidents[incidents['event_id'].isin(event_ids)].
FilterIncidents(log, ids) ==
    LET Keep(r) == r.event_id \in ids IN SelectSeq(log, Keep)

JoinedRow(inc, a) ==
    [event_id |-> inc.event_id, asset_code |-> inc.asset_code,
     damage_severity |-> inc.damage_severity,
     repair_cost_usd |-> inc.repair_cost_usd, downtime_hours |-> inc.downtime_hours,
     code |-> a.code, name |-> a.name, type |-> a.type, criticality |-> a.criticality]

NullAsset == [code |-> NaN, name |-> NaN, type |-> NaN, criticality |-> NaN]

\* The rows of the registry whose code is `code`, in registry order.
AssetsWithCode(registry, code) ==
    LET Keep(a) == a.code = code IN SelectSeq(registry, Keep)

RECURSIVE JoinAll(_, _)
JoinAll(rows, registry) ==
    IF rows = <<>> THEN <<>>
    ELSE [i \in 1..Len(registry) |-> JoinedRow(Head(rows), registry[i])]
         \o JoinAll(Tail(rows), registry)

\* merge(..., how='inner'): incidents without a matching asset are dropped.
RECURSIVE MergeInner(_, _)
MergeInner(rows, registry) ==
    IF rows = <<>> THEN <<>>
    ELSE JoinAll(<<Head(rows)>>, AssetsWithCode(registry, Head(rows).asset_code))
         \o MergeInner(Tail(rows), registry)

\* Lines 187-192: merge(assets, left_on='asset_code', right_on='code',
\* how='left'): one row per matching asset, and for an incident with no
\* matching asset one row whose asset columns are NaN.
RECURSIVE MergeLeft(_, _)
MergeLeft(rows, registry) ==
    IF rows = <<>> THEN <<>>
    ELSE LET matches == AssetsWithCode(registry, Head(rows).asset_code)
         IN (IF matches = <<>> THEN <<JoinedRow(Head(rows), NullAsset)>>
             ELSE JoinAll(<<Head(rows)>>, matches))
            \o MergeLeft(Tail(rows), registry)

\* get_affected_assets(event_ids), lines 171-194.
get_affected_assets(registry, log, ids) ==
    MergeLeft(FilterIncidents(log, ids), registry)

\* The values of one column of a table.
ColumnOf(df, col) == [i \in 1..Len(df) |-> df[i][col]]

\* The grouping key of the frequency count taken from the incident's own
\* asset_code column instead of the joined code column.
FrequencyKeyAssetCode == "asset_code"

\* Line 222 groups by the joined asset column 'code'.
FrequencyKey == "code"

\* groupby(col).size().to_dict(): the number of rows of each value of the
\* column; rows whose value is NaN belong to no group.
GroupSize(df, col) ==
    [v \in { df[i][col] : i \in 1..Len(df) } \ {NaN} |->
        Cardinality({ i \in 1..Len(df) : df[i][col] = v })]

\* Series.sum() of a numeric column.
ColumnSum(df, col) == SumSeq(ColumnOf(df, col))

\* The program's cap on the high-risk list (head(10), line 223).
TopN == 10

\* sort_values(ascending=False) with the default kind='quicksort', which is
\* not a stable sort: every arrangement of the keys in non-increasing count
\* is a possible outcome.
SortValuesDescending(freq) ==
    LET keys == DOMAIN freq
        n == Cardinality(keys)
    IN { s \in [1..n -> keys] :
           /\ \A i, j \in 1..n : i # j => s[i] # s[j]
           /\ \A i, j \in 1..n : i < j => freq[s[i]] >= freq[s[j]] }

\* Lines 225-234: one entry per asset of the ranking; the registry lookup
\* .iloc[0] raises IndexError when no asset has the code.
HighRiskList(registry, freq, order) ==
    [p \in 1..Len(order) |->
        LET found == AssetsWithCode(registry, order[p])
        IN IF found = <<>>
           THEN [raised |-> TRUE, code |-> order[p]]
           ELSE [raised |-> FALSE, code |-> order[p], name |-> found[1].name,
                 type |-> found[1].type, incident_count |-> freq[order[p]],
                 criticality |-> found[1].criticality]]

\* The aggregate of the degenerate case (lines 206-214).
EmptyAnalysis ==
    [total_incidents |-> 0, unique_assets |-> 0, by_asset_type |-> <<>>,
     by_criticality |-> <<>>, by_damage_severity |-> <<>>,
     high_risk_assets |-> <<>>]

\* analyze_risk_patterns(affected_assets), lines 196-245, for the outcome
\* `order` of the sort of line 223.
analyze_risk_patterns(registry, df, order) ==
    IF Len(df) = 0 THEN EmptyAnalysis
    ELSE [total_incidents |-> Len(df),
          unique_assets |-> Cardinality({ df[i].code : i \in 1..Len(df) } \ {NaN}),
          by_asset_type |-> GroupSize(df, "type"),
          by_criticality |-> GroupSize(df, "criticality"),
          by_damage_severity |-> GroupSize(df, "damage_severity"),
          high_risk_assets |->
              HighRiskList(registry, GroupSize(df, FrequencyKey),
                           Slice(order, TopN)),
          total_estimated_cost |-> ColumnSum(df, "repair_cost_usd"),
          total_downtime_hours |-> ColumnSum(df, "downtime_hours")]

\* Whether the aggregation raised (the IndexError of line 227).
Raised(agg) ==
    \E p \in 1..Len(agg.high_risk_assets) : agg.high_risk_assets[p].raised

\* AssetImpactAnalyzer.__init__ (lines 159-169), for every incident log.
InitAnalyzer ==
    /\ assets = AssetRegistry
    /\ incidents \in IncidentLogs
    /\ event_ids = {}
    /\ affected_assets = <<>>
    /\ analysis = [status |-> "init"]

\* The tool function analyze_affected_assets(event_ids) of agent.py (lines
\* 160-186): both analyzer calls, and the error dictionary when one raises.
analyze_affected_assets(ids) ==
    LET df == get_affected_assets(assets, incidents, ids) IN
    \E order \in SortValuesDescending(GroupSize(df, FrequencyKey)) :
        LET agg == analyze_risk_patterns(assets, df, order) IN
        /\ event_ids' = ids
        /\ affected_assets' = df
        /\ analysis' = IF Raised(agg)
                       THEN [status |-> "error"]
                       ELSE [status |-> "success", risk_analysis |-> agg]
        /\ UNCHANGED <<assets, incidents>>

AnalyzeStep ==
    \E ids \in EventIdLists :
        analyze_affected_assets(ids)
        /\ UNCHANGED <<knnVars, threadVars, riskVars, callerVars, authVars, workVars, detectVars>>

\* The impact analyzer as it is while only the similarity search is run.
IdleImpact ==
    /\ assets = <<>>
    /\ incidents = <<>>
    /\ event_ids = {}
    /\ affected_assets = <<>>
    /\ analysis = [status |-> "init"]

\* The similarity search as it is while only the impact analyzer is run.
IdleKnn == InitKnn /\ k = 1

---------------------------------------------------------------------------
(* load_historical_data and find_similar_events run by two threads.  Neither *)
(* method takes a lock, so a thread switch can fall between any two of      *)
(* their statements; each step below is one statement (one read or one      *)
(* write of a field of the analyzer).                                       *)

\* Tables that are loaded and reloaded: different lengths, statistics and
\* event ids.
ReloadTables ==
    { EventsTable(<< <<0, 0, 1, 1, 3>>, <<2, 0, 1, 1, 3>>, <<1, 1, 1, 2, 4>> >>),
      << [event_id |-> 20, features |-> <<1, 1, 1, 2, 4>>],
         [event_id |-> 50, features |-> <<0, 0, 1, 1, 3>>] >> }

ReloadQueries == { <<1, 0, 1, 1, 3>>, <<1, 1, 1, 2, 4>> }

IdleLoader == [pc |-> "idle", df |-> <<>>, col |-> 0, loads |-> 0]

IdleReader ==
    [pc |-> "idle", event |-> <<>>, col |-> 0, idx |-> 0, len |-> 0,
     mean |-> [nan |-> TRUE, num |-> 0, den |-> 1], stats |-> <<>>,
     rows |-> <<>>, ids |-> <<>>]

\* The threads as they are while the analyzer is used by one caller only.
IdleThreads ==
    /\ loader = IdleLoader
    /\ reader = IdleReader

\* The state in which queries start: the analyzer constructed and loaded once,
\* as _load_csv_data does on import (agent.py lines 79-80).
InitLoaded ==
    /\ k \in 1..MaxK
    /\ \E df \in ReloadTables :
        /\ historical_events = Some(df)
        /\ feature_stats = LoadStats(df)
        /\ normalized_features = Some(normalize_features(df, LoadStats(df)))
    /\ current_event = <<>>
    /\ result = [op |-> "load_historical_data", status |-> "ok", value |-> <<>>]
    /\ loader = [IdleLoader EXCEPT !.loads = 1]
    /\ reader = IdleReader

\* Line 48: self.historical_events = events_df.copy().
ReloadCopy(df) ==
    /\ loader.pc = "idle"
    /\ loader.loads < 1 + MaxReloads
    /\ loader' = [pc |-> "line52", df |-> df, col |-> 1, loads |-> loader.loads + 1]
    /\ historical_events' = Some(df)
    /\ UNCHANGED <<k, feature_stats, normalized_features, current_event, result, reader>>

\* Lines 51-55, one pass of the loop: self.feature_stats[col] = {...}.
ReloadStats ==
    /\ loader.pc = "line52"
    /\ feature_stats' =
         [feature_stats EXCEPT ![loader.col] = ColumnStats(loader.df, feature_columns[loader.col])]
    /\ loader' = IF loader.col < NumFeatures
                 THEN [loader EXCEPT !.col = loader.col + 1]
                 ELSE [loader EXCEPT !.pc = "line58"]
    /\ UNCHANGED <<k, historical_events, normalized_features, current_event, result, reader>>

\* Lines 58-60: self.normalized_features = self._normalize_features(...).
ReloadNormalize ==
    /\ loader.pc = "line58"
    /\ normalized_features' = Some(normalize_features(loader.df, feature_stats))
    /\ loader' = [IdleLoader EXCEPT !.loads = loader.loads]
    /\ UNCHANGED <<k, historical_events, feature_stats, current_event, result, reader>>

\* Lines 110-115: the query's features are taken from the argument.
QueryBegin(event) ==
    /\ reader.pc \in {"idle", "done"}
    /\ reader' = [IdleReader EXCEPT !.pc = "line117", !.event = event, !.col = 1]
    /\ UNCHANGED <<knnVars, loader>>

\* Line 117: mean = self.feature_stats[col]['mean'].
QueryReadMean ==
    /\ reader.pc = "line117"
    /\ reader' = [reader EXCEPT !.pc = "line118",
                                !.mean = feature_stats[reader.col].mean]
    /\ UNCHANGED <<knnVars, loader>>

\* Lines 118-122: std = self.feature_stats[col]['std'], and the normalized
\* query value of the column.
QueryReadStd ==
    /\ reader.pc = "line118"
    /\ reader' = [reader EXCEPT
                    !.pc = IF reader.col < NumFeatures THEN "line117" ELSE "line126",
                    !.col = IF reader.col < NumFeatures THEN reader.col + 1 ELSE reader.col,
                    !.stats = Append(@, [mean |-> reader.mean,
                                         std |-> feature_stats[reader.col].std])]
    /\ UNCHANGED <<knnVars, loader>>

\* Whether the statistics, the matrix rows and the event ids a query has read
\* are those of the table df, i.e. of one load.
SnapshotOf(rd, df) ==
    /\ rd.stats = LoadStats(df)
    /\ rd.rows = normalize_features(df, LoadStats(df))
    /\ rd.ids = [i \in 1..Len(df) |-> df[i].event_id]

\* What find_similar_events returns from what it has read.  Values that were
\* normalized under the statistics of different loads have no common unit in
\* the model's exact arithmetic; such a result is recorded as "mixed", with
\* the event ids in row order.
QueryResult(rd) ==
    IF ~\E df \in ReloadTables : SnapshotOf(rd, df)
    THEN [op |-> "find_similar_events", status |-> "mixed", value |-> rd.ids]
    ELSE [op |-> "find_similar_events", status |-> "ok",
          value |-> Slice(SortByDistance(
                       Distances([i \in 1..Len(rd.ids) |-> [event_id |-> rd.ids[i]]],
                                 rd.rows, ColumnScale(rd.stats),
                                 NormalizeCurrent(rd.event, rd.stats))), k)]

\* Line 126: range(len(self.normalized_features)) is evaluated once; with no
\* row the loop is skipped and lines 135-136 return the empty list.
QueryLoopStart ==
    /\ reader.pc = "line126"
    /\ LET rd == [reader EXCEPT !.len = Len(normalized_features.rows), !.idx = 1]
       IN IF rd.len = 0
          THEN /\ reader' = [rd EXCEPT !.pc = "done"]
               /\ result' = QueryResult(rd)
               /\ current_event' = rd.event
          ELSE /\ reader' = [rd EXCEPT !.pc = "line127"]
               /\ UNCHANGED <<result, current_event>>
    /\ UNCHANGED <<k, historical_events, feature_stats, normalized_features,
                   loader>>

\* Lines 127-130: the row self.normalized_features[idx]; IndexError when the
\* matrix now has fewer rows.
QueryReadRow ==
    /\ reader.pc = "line127"
    /\ IF reader.idx > Len(normalized_features.rows)
       THEN /\ reader' = [reader EXCEPT !.pc = "done"]
            /\ result' = [op |-> "find_similar_events", status |-> "raised",
                          value |-> <<>>]
            /\ current_event' = reader.event
       ELSE /\ reader' = [reader EXCEPT !.pc = "line131",
                                        !.rows = Append(@, normalized_features.rows[reader.idx])]
            /\ UNCHANGED <<result, current_event>>
    /\ UNCHANGED <<k, historical_events, feature_stats, normalized_features,
                   loader>>

\* Lines 131-132: event_id = self.historical_events.iloc[idx]['event_id']
\* (IndexError when the table now has fewer rows), and after the last row the
\* sort and the slice of lines 135-136.
QueryReadEventId ==
    /\ reader.pc = "line131"
    /\ IF reader.idx > Len(historical_events.rows)
       THEN /\ reader' = [reader EXCEPT !.pc = "done"]
            /\ result' = [op |-> "find_similar_events", status |-> "raised",
                          value |-> <<>>]
            /\ current_event' = reader.event
       ELSE LET rd == [reader EXCEPT
                         !.ids = Append(@, historical_events.rows[reader.idx].event_id)]
            IN IF rd.idx < rd.len
               THEN /\ reader' = [rd EXCEPT !.pc = "line127", !.idx = rd.idx + 1]
                    /\ UNCHANGED <<result, current_event>>
               ELSE /\ reader' = [rd EXCEPT !.pc = "done"]
                    /\ result' = QueryResult(rd)
                    /\ current_event' = rd.event
    /\ UNCHANGED <<k, historical_events, feature_stats, normalized_features,
                   loader>>

---------------------------------------------------------------------------
(* Risk predictor: AssetImpactAnalyzer.predict_at_risk_assets and the tool  *)
(* function of agent.py that calls it.                                      *)
(*                                                                          *)
(* Dates are day numbers counted from the day the process starts (day 0);   *)
(* an installation date before that day is negative.  A risk score is kept  *)
(* in hundredths (1190 is 11.90) and an age in tenths of a year.  The       *)
(* unrounded score is a rational number that is never exactly half-way      *)
(* between two hundredths (1461 is odd), so round(.., 2) is rounding to the *)
(* nearest hundredth; floating-point error is many orders below the         *)
(* smallest distance to a half-way point and is not modelled.               *)

MaxDays == 2      \* days that pass while the process runs

\* The asset registry with the columns the risk predictor reads.  Codes are
\* unique and not in code order; "Urgent" is not a criticality label the
\* predictor knows; no asset has the type "Signal"; the transformers are
\* older than 30 years (10957.5 days).
RiskAssets ==
    << [code |-> "P2", name |-> "Pole 2", type |-> "Pole", category |-> "Electrical",
        criticality |-> "High", condition_score |-> 3, installation_date |-> -7305],
       [code |-> "P1", name |-> "Pole 1", type |-> "Pole", category |-> "Electrical",
        criticality |-> "High", condition_score |-> 3, installation_date |-> -7305],
       [code |-> "T1", name |-> "Transformer 1", type |-> "Transformer",
        category |-> "Electrical", criticality |-> "Urgent", condition_score |-> 5,
        installation_date |-> -12000],
       [code |-> "T2", name |-> "Transformer 2", type |-> "Transformer",
        category |-> "Electrical", criticality |-> "Critical", condition_score |-> 10,
        installation_date |-> -11000],
       [code |-> "S1", name |-> "Switch 1", type |-> "Switch", category |-> "Rail",
        criticality |-> "Low", condition_score |-> 9, installation_date |-> -7314] >>

\* A registry that also holds an asset entered ahead of its installation:
\* its installation_date is 400 days after the day the process starts.  Both
\* assets are in perfect condition (condition_score 10).
PlannedAssets ==
    << [code |-> "S1", name |-> "Switch 1", type |-> "Switch", category |-> "Rail",
        criticality |-> "Low", condition_score |-> 10, installation_date |-> -7314],
       [code |-> "S2", name |-> "Switch 2", type |-> "Switch", category |-> "Rail",
        criticality |-> "Low", condition_score |-> 10, installation_date |-> 400] >>

\* The registries (assets.csv) the analyzer is constructed with.
RiskRegistries == { RiskAssets, PlannedAssets }

\* One item of a Python dict, which keeps its items in insertion order.
Item(type, count) == [type |-> type, count |-> count]

\* The by_asset_type dictionaries the tool is called with.
ByAssetTypeDicts ==
    { <<>>,
      <<Item("Pole", 1)>>,
      <<Item("Switch", 1)>>,
      <<Item("Signal", 3)>>,
      <<Item("Transformer", 1), Item("Pole", 1)>>,
      <<Item("Pole", 1), Item("Transformer", 1)>>,
      <<Item("Pole", 1), Item("Transformer", 2)>>,
      <<Item("Switch", 2), Item("Signal", 1), Item("Pole", 0)>> }

\* Line 264: self.assets[self.assets['type'] == asset_type] with the
\* comparison left out: every asset of the registry.
MatchingAssetsAll(registry, asset_type) == registry

\* Line 264: the assets of the registry of one type, in registry order.
MatchingAssets(registry, asset_type) ==
    LET Keep(a) == a.type = asset_type IN SelectSeq(registry, Keep)

\* Lines 274-276: (now - installation_date).days.
AgeDays(asset, now) == now - asset.installation_date

\* a / b rounded to the nearest integer, for a >= 0 and b > 0.
RoundDiv(a, b) == (2 * a + b) \div (2 * b)

\* round(age_years, 1) in tenths of a year: age_years = days / 365.25.
AgeYearsTenths(days) == RoundDiv(40 * days, 1461)

\* The criticality weights of lines 278-283, in hundredths.
CriticalityWeights == [Critical |-> 150, High |-> 120, Medium |-> 100, Low |-> 80]

\* The weight looked up with [..] instead of .get(.., 1.0): KeyError for a
\* label that is not in the dictionary.
CriticalityWeightStrict(label) ==
    IF label \in DOMAIN CriticalityWeights
    THEN [raised |-> FALSE, weight |-> CriticalityWeights[label]]
    ELSE [raised |-> TRUE, weight |-> 0]

\* Lines 278-283: {...}.get(asset['criticality'], 1.0).
CriticalityWeight(label) ==
    IF label \in DOMAIN CriticalityWeights
    THEN [raised |-> FALSE, weight |-> CriticalityWeights[label]]
    ELSE [raised |-> FALSE, weight |-> 100]

\* The age term without the cap of line 289: age_years / 30 * 30 * 0.2.
AgeTermUncapped(days) == [num |-> 80 * days, den |-> 1461]

\* Lines 289 and 294: min(age_years / 30, 1.0) * 30 * 0.2 in hundredths, as
\* a fraction: days / 365.25 / 30 * 600 = 80 * days / 1461, at most 600.
AgeTerm(days) ==
    IF 80 * days >= 600 * 1461
    THEN [num |-> 600 * 1461, den |-> 1461]
    ELSE [num |-> 80 * days, den |-> 1461]

\* Lines 286 and 291-296, then round(risk_score, 2) of line 303:
\* incident_count * 0.4 + (10 - condition_score) / 10 * 30 * 0.3
\* + age_risk * 30 * 0.2 + criticality_weight * 10 * 0.1, in hundredths.
RiskScore(asset, incident_count, now) ==
    40 * incident_count
    + 90 * (10 - asset.condition_score)
    + RoundDiv(AgeTerm(AgeDays(asset, now)).num, AgeTerm(AgeDays(asset, now)).den)
    + CriticalityWeight(asset.criticality).weight

\* Lines 298-309: the dictionary appended for one asset.
RiskResult(asset, incident_count, now) ==
    [raised |-> CriticalityWeight(asset.criticality).raised,
     code |-> asset.code, name |-> asset.name, type |-> asset.type,
     category |-> asset.category,
     risk_score |-> RiskScore(asset, incident_count, now),
     criticality |-> asset.criticality,
     condition_score |-> asset.condition_score,
     age_years |-> AgeYearsTenths(AgeDays(asset, now)),
     installation_date |-> asset.installation_date,
     historical_incident_count |-> incident_count]

\* Lines 262-309: the entries in the order they are appended: the items of
\* by_asset_type in dictionary order, and for each the assets of that type in
\* registry order.
RECURSIVE ScoreAll(_, _, _)
ScoreAll(registry, items, now) ==
    IF items = <<>> THEN <<>>
    ELSE LET matching == MatchingAssets(registry, Head(items).type)
         IN [i \in 1..Len(matching) |->
                RiskResult(matching[i], Head(items).count, now)]
            \o ScoreAll(registry, Tail(items), now)

\* Insertion that puts x before the entries of equal score (not stable).
InsertByRiskBeforeEqual(sorted, x) ==
    LET later == { i \in 1..Len(sorted) : sorted[i].risk_score <= x.risk_score }
        pos == IF later = {} THEN Len(sorted) + 1
               ELSE CHOOSE i \in later : \A j \in later : i <= j
    IN SubSeq(sorted, 1, pos - 1) \o <<x>> \o SubSeq(sorted, pos, Len(sorted))

\* One step of list.sort(reverse=True): x goes before the first entry of
\* strictly smaller score, hence after every entry of equal score.
InsertByRisk(sorted, x) ==
    LET later == { i \in 1..Len(sorted) : sorted[i].risk_score < x.risk_score }
        pos == IF later = {} THEN Len(sorted) + 1
               ELSE CHOOSE i \in later : \A j \in later : i <= j
    IN SubSeq(sorted, 1, pos - 1) \o <<x>> \o SubSeq(sorted, pos, Len(sorted))

RECURSIVE SortRiskPrefix(_, _)
SortRiskPrefix(s, n) ==
    IF n = 0 THEN <<>> ELSE InsertByRisk(SortRiskPrefix(s, n - 1), s[n])

\* at_risk.sort(key=lambda x: x['risk_score'], reverse=True) (line 312):
\* Python's sort is stable, also with reverse=True.
SortByRiskScore(s) == SortRiskPrefix(s, Len(s))

\* AssetImpactAnalyzer.predict_at_risk_assets, lines 247-314, for the
\* by_asset_type entry of risk_analysis and the date datetime.now() gives.
predict_at_risk_assets(registry, risk_asset_types, now) ==
    SortByRiskScore(ScoreAll(registry, risk_asset_types, now))

\* The tool function predict_at_risk_assets of agent.py (lines 189-230): the
\* analyzer call, and the error dictionary when it raises.
predict_tool(types) ==
    LET all == predict_at_risk_assets(assets, types, clock) IN
    /\ by_asset_type' = types
    /\ called_on' = clock
    /\ at_risk' = IF \E p \in 1..Len(all) : all[p].raised
                  THEN [status |-> "error"]
                  ELSE [status |-> "success", at_risk_count |-> Len(all),
                        top_10_at_risk |-> Slice(all, 10), all_at_risk |-> all]
    /\ previous' = [by_asset_type |-> by_asset_type, at_risk |-> at_risk]
    /\ UNCHANGED <<clock, assets, incidents, event_ids, affected_assets, analysis>>

PredictStep ==
    \E types \in ByAssetTypeDicts :
        predict_tool(types) /\ UNCHANGED <<knnVars, threadVars, callerVars, authVars, workVars, detectVars>>

\* A day passes: datetime.now() (line 275) moves on between two calls.
Tick ==
    /\ clock < MaxDays
    /\ clock' = clock + 1
    /\ UNCHANGED <<by_asset_type, called_on, at_risk, previous>>
    /\ UNCHANGED <<knnVars, impactVars, threadVars, callerVars, authVars, workVars, detectVars>>

\* The risk predictor before its first call.
NoCall == [status |-> "init"]

InitRisk ==
    /\ clock = 0
    /\ by_asset_type = <<>>
    /\ called_on = 0
    /\ at_risk = NoCall
    /\ previous = [by_asset_type |-> <<>>, at_risk |-> NoCall]

\* The risk predictor as it is while it is not called.
IdleRisk == InitRisk

\* The impact analyzer constructed with the registry of the risk predictor.
InitRiskAnalyzer ==
    /\ assets \in RiskRegistries
    /\ incidents = <<>>
    /\ event_ids = {}
    /\ affected_assets = <<>>
    /\ analysis = [status |-> "init"]

---------------------------------------------------------------------------
(* The caller of WeatherKNN *)

\* Tables the analyzer is loaded with on import: the two tables of different
\* event ids, and a table without rows.
QueryTables == ReloadTables \cup { <<>> }

\* Event ids that are looked up; 99 is in no table.
LookupIds == {40, 70, 20, 99}

\* The incident log of the analyzer next to the registry of the risk
\* predictor.
QueryIncidents ==
    << [event_id |-> 40, asset_code |-> "P1", damage_severity |-> "Minor",
        repair_cost_usd |-> 100, downtime_hours |-> 2],
       [event_id |-> 20, asset_code |-> "T1", damage_severity |-> "Severe",
        repair_cost_usd |-> 400, downtime_hours |-> 8],
       [event_id |-> 40, asset_code |-> "X9", damage_severity |-> "Minor",
        repair_cost_usd |-> 50, downtime_hours |-> 3] >>

QueryIdLists == { {}, {40}, {20, 99}, {40, 20} }

QueryDicts == { <<Item("Pole", 1)>>, <<Item("Transformer", 1), Item("Pole", 1)>> }

\* get_event_details returning the first row of the table whatever the id:
\* .iloc[0] without the filter of line 149.
EventDetailsFirstRow(events, event_id) ==
    IF events.none \/ Len(events.rows) = 0
    THEN [status |-> "raised", event_id |-> event_id]
    ELSE [status |-> "ok", event_id |-> event_id, value |-> events.rows[1]]

\* WeatherKNN.get_event_details (lines 138-151): the first row whose event_id
\* is the given id; .iloc[0] raises IndexError when no row has it, and
\* subscripting None raises TypeError before any load.
EventDetails(events, event_id) ==
    LET Keep(row) == row.event_id = event_id
        found == SelectSeq(events.rows, Keep)
    IN IF events.none \/ Len(found) = 0
       THEN [status |-> "raised", event_id |-> event_id]
       ELSE [status |-> "ok", event_id |-> event_id, value |-> found[1]]

\* A direct call of get_event_details(event_id).
get_event_details(event_id) ==
    /\ details' = [op |-> "get_event_details"] @@ EventDetails(historical_events, event_id)
    /\ UNCHANGED <<knnVars, caller_df>>

\* Lines 133-146 of agent.py: one result per (event_id, distance) pair with
\* the details of that event.
SimilarEvents(similar, events) ==
    [p \in 1..Len(similar) |->
        LET event_details == EventDetails(events, similar[p].event_id) IN
        IF event_details.status = "raised"
        THEN [raised |-> TRUE, event_id |-> similar[p].event_id]
        ELSE [raised |-> FALSE, event_id |-> similar[p].event_id,
              similarity_distance |-> similar[p].distance,
              features |-> event_details.value.features]]

\* The tool function find_similar_weather_events of agent.py (lines 99-157):
\* the search, the details of every event it returned, and the error
\* dictionary when a call raises.
find_similar_weather_events(event) ==
    /\ find_similar_events(event)
    /\ details' =
         IF result'.status # "ok"
         THEN [op |-> "find_similar_weather_events", status |-> "error"]
         ELSE LET results == SimilarEvents(result'.value, historical_events) IN
              IF \E p \in 1..Len(results) : results[p].raised
              THEN [op |-> "find_similar_weather_events", status |-> "error"]
              ELSE [op |-> "find_similar_weather_events", status |-> "success",
                    found_count |-> Len(results), similar_events |-> results,
                    event_ids |-> [p \in 1..Len(results) |-> results[p].event_id]]
    /\ UNCHANGED caller_df

\* The caller changes the table it passed to load_historical_data, in place
\* (the event_id of its first row).  The analyzer's table changes with it
\* when it is the same object.
CallerMutates ==
    /\ Len(caller_df.rows) > 0
    /\ caller_df.rows[1].event_id # 99
    /\ caller_df' = [caller_df EXCEPT !.rows[1].event_id = 99]
    /\ historical_events' = IF caller_df.same_object
                            THEN Some(caller_df'.rows)
                            ELSE historical_events
    /\ UNCHANGED <<k, feature_stats, normalized_features, current_event, result, details>>

\* _load_csv_data (agent.py lines 43-92): both analyzers constructed and the
\* historical table loaded, the caller still holding the table it passed.
InitQueries ==
    /\ k \in 1..MaxK
    /\ \E df \in QueryTables :
        /\ historical_events = Some(DataFrameCopy(df).rows)
        /\ feature_stats = LoadStats(df)
        /\ normalized_features = Some(normalize_features(df, LoadStats(df)))
        /\ caller_df = [rows |-> df, same_object |-> DataFrameCopy(df).same_object]
    /\ current_event = <<>>
    /\ result = [op |-> "load_historical_data", status |-> "ok", value |-> <<>>]
    /\ details = [op |-> "init", status |-> "ok"]
    /\ assets = RiskAssets
    /\ incidents = QueryIncidents
    /\ event_ids = {}
    /\ affected_assets = <<>>
    /\ analysis = [status |-> "init"]

\* The caller's table and the lookup as they are while they are not used.
IdleCaller ==
    /\ caller_df = [rows |-> <<>>, same_object |-> FALSE]
    /\ details = [op |-> "init", status |-> "ok"]

---------------------------------------------------------------------------
(* AuthManager *)

MaxLogins == 3    \* login requests sent while the process runs
MaxManagers == 2  \* managers that construct an AuthManager()

\* Python's None as the value of _token or as a return value.
NoToken == "None"

\* What the login request of lines 54-56 can give: a token, a JSON body
\* without the key 'token' (.get gives None), an empty token, or a failure
\* (RequestException from post or raise_for_status).
LoginResponses ==
    { [ok |-> TRUE, token |-> "jwt1"], [ok |-> TRUE, token |-> "jwt2"],
      [ok |-> TRUE, token |-> NoToken], [ok |-> TRUE, token |-> ""],
      [ok |-> FALSE, token |-> NoToken] }

\* Truth value of a token in `if self._token` / `if not token`.
Truthy(tok) == tok # NoToken /\ tok # ""

\* The cache test left out: every call logs in.
UseCacheNever(tok, force_refresh) == FALSE

\* Line 51: if self._token and not force_refresh.
UseCache(tok, force_refresh) == Truthy(tok) /\ ~force_refresh

\* What one call did: the method, its argument, what it returned, the login
\* requests it sent, the login requests sent so far; _initialized of the
\* single instance and the number of AuthManager() calls so far.
Call(op, force_refresh, returned, requests) ==
    [op |-> op, force_refresh |-> force_refresh, returned |-> returned,
     requests |-> requests, sent |-> auth.sent + requests,
     initialized |-> TRUE, managers |-> auth.managers]

\* AuthManager() (lines 18-39): the first construction creates and
\* initializes the single instance, every later one returns it unchanged.
AuthManagerNew ==
    /\ auth.managers < MaxManagers
    /\ auth' = [Call("AuthManager", FALSE, NoToken, 0)
                   EXCEPT !.managers = auth.managers + 1]
    /\ token' = token

\* AuthManager.get_jwt_token (lines 41-61): the token it returns, the new
\* value of _token and the requests sent, for the response `resp` of the
\* server when a login request is sent.
JwtToken(tok, force_refresh, resp) ==
    IF UseCache(tok, force_refresh)
    THEN [returned |-> tok, token |-> tok, requests |-> 0]
    ELSE IF resp.ok
         THEN [returned |-> resp.token, token |-> resp.token, requests |-> 1]
         ELSE [returned |-> NoToken, token |-> tok, requests |-> 1]

get_jwt_token(force_refresh) ==
    /\ auth.initialized
    /\ \E resp \in LoginResponses :
         LET r == JwtToken(token, force_refresh, resp) IN
         /\ auth.sent + r.requests <= MaxLogins
         /\ token' = r.token
         /\ auth' = Call("get_jwt_token", force_refresh, r.returned, r.requests)

\* AuthManager.clear_token (lines 63-65).
clear_token ==
    /\ auth.initialized
    /\ token' = NoToken
    /\ auth' = Call("clear_token", FALSE, NoToken, 0)

\* AuthManager.get_auth_headers (lines 67-77): {} without a token, else
\* {"Authorization": "Bearer <token>"}.
get_auth_headers ==
    /\ auth.initialized
    /\ \E resp \in LoginResponses :
         LET r == JwtToken(token, FALSE, resp) IN
         /\ auth.sent + r.requests <= MaxLogins
         /\ token' = r.token
         /\ auth' = Call("get_auth_headers", FALSE,
                         IF Truthy(r.returned)
                         THEN <<"Authorization", "Bearer ", r.returned>>
                         ELSE <<>>,
                         r.requests)

\* The class before the first AuthManager() (lines 15-16).
InitAuth ==
    /\ token = NoToken
    /\ auth = [op |-> "init", force_refresh |-> FALSE, returned |-> NoToken,
               requests |-> 0, sent |-> 0, initialized |-> FALSE, managers |-> 0]

\* The authentication manager while it is not used.
IdleAuth == InitAuth

---------------------------------------------------------------------------
(* Work orders and work activities: WorkOrderManager (work_order.py),       *)
(* WorkActivityManager (work_activity.py) and the two tool functions of     *)
(* agent.py that call them.  The classes of image_analysis have the same    *)
(* checks, wrapper keys and duration rule.                                  *)
(*                                                                          *)
(* A Python value of a payload is a record with its kind ("str", "int",     *)
(* "none", "dict"); a dict is the sequence of its entries in insertion      *)
(* order.  A work order id is an integer, NoId stands for None.             *)

PyStr(t) == [kind |-> "str", text |-> t, num |-> 0, items |-> <<>>]

PyInt(n) == [kind |-> "int", text |-> "", num |-> n, items |-> <<>>]

PyNone == [kind |-> "none", text |-> "", num |-> 0, items |-> <<>>]

PyDict(items) == [kind |-> "dict", text |-> "", num |-> 0, items |-> items]

Entry(key, value) == [key |-> key, value |-> value]

\* key in d
In(key, d) == \E i \in 1..Len(d) : d[i].key = key

\* d.get(key, default)
Get(d, key, default) ==
    IF In(key, d)
    THEN d[CHOOSE i \in 1..Len(d) : d[i].key = key].value
    ELSE default

\* Truth value of a Python value: '', 0, None and {} are false.
PyTruthy(v) ==
    CASE v.kind = "str" -> v.text # ""
      [] v.kind = "int" -> v.num # 0
      [] v.kind = "dict" -> v.items # <<>>
      [] OTHER -> FALSE

\* None as a work order id.
NoId == -1

\* `not work_order_id` tested as `work_order_id is None`: the id 0 passes.
NotIdNoneOnly(id) == id = NoId

\* `not work_order_id` (work_activity.py line 163): true for None and for 0.
NotId(id) == id = NoId \/ id = 0

\* The wrapper keys in the order the loops try them (work_order.py line 167,
\* work_activity.py line 173).
OrderWrapperKeys == <<"data", "work_order", "payload", "fields", "content">>

ActivityWrapperKeys == <<"data", "work_activity", "payload", "fields", "content">>

\* The field names that make a wrapper qualify (work_order.py line 171,
\* work_activity.py line 177).
OrderFields == {"description", "notes", "priority", "status", "type"}

ActivityFields == {"description", "notes", "priority", "status", "problemType"}

\* The unwrapping without the test of the wrapper's content: the first
\* wrapper key whose value is a dict is taken.
UnwrapAnyDict(payload, wrapper_keys, expected) ==
    LET q == { i \in 1..Len(wrapper_keys) :
                 /\ In(wrapper_keys[i], payload)
                 /\ Get(payload, wrapper_keys[i], PyNone).kind = "dict" }
    IN IF q = {} THEN payload
       ELSE Get(payload,
                wrapper_keys[CHOOSE i \in q : \A j \in q : i <= j],
                PyNone).items

\* The unwrapping loop (work_order.py lines 164-173, work_activity.py lines
\* 170-179): the dict the fields are read from.
Unwrap(payload, wrapper_keys, expected) ==
    LET q == { i \in 1..Len(wrapper_keys) :
                 /\ In(wrapper_keys[i], payload)
                 /\ Get(payload, wrapper_keys[i], PyNone).kind = "dict"
                 /\ \E key \in expected :
                       In(key, Get(payload, wrapper_keys[i], PyNone).items) }
    IN IF q = {} THEN payload
       ELSE Get(payload,
                wrapper_keys[CHOOSE i \in q : \A j \in q : i <= j],
                PyNone).items

\* One HTTP request: what is requested and the token of its Authorization
\* header (NoToken when the request carries none).
Request(what, bearer) == [request |-> what, bearer |-> bearer]

\* get_auth_headers() called by a manager (auth_manager.py lines 67-77):
\* the headers, the cached token afterwards and the login request sent.
AuthHeaders(tok, resp) ==
    LET r == JwtToken(tok, FALSE, resp) IN
    [bearer |-> IF Truthy(r.returned) THEN r.returned ELSE NoToken,
     ok |-> Truthy(r.returned),
     token |-> r.token,
     requests |-> IF r.requests = 1
                  THEN <<Request("POST /auth/login", NoToken)>> ELSE <<>>]

\* Answers of the backend to GET /assets?codes=..: asset ids, none, or a
\* failed request.
AssetResponses == { [ok |-> TRUE, id |-> 5], [ok |-> TRUE, id |-> NoId],
                    [ok |-> FALSE, id |-> NoId] }

\* Answers of the backend to a POST: created with an id (the id may be 0 or
\* missing), a failed request (RequestException), or a 2xx body without
\* 'data'.
PostResponses ==
    { [kind |-> "created", id |-> 7], [kind |-> "created", id |-> 8],
      [kind |-> "created", id |-> 0], [kind |-> "created", id |-> NoId],
      [kind |-> "failed", id |-> NoId], [kind |-> "nodata", id |-> NoId] }

\* What a manager call returned (or that it raised), with the requests it
\* sent, the body it posted and the token cached afterwards.
Outcome(status, message, id, data, posted, requests, tok) ==
    [status |-> status, message |-> message, work_order_id |-> id,
     data |-> data, posted |-> posted, requests |-> requests, token |-> tok]

\* _fetch_asset_ids / _fetch_asset_id (work_order.py lines 25-73,
\* work_activity.py lines 24-69): the id found (NoId for None), the token
\* cached afterwards and the requests sent.
FetchAssetId(tok, login, lookup) ==
    LET h == AuthHeaders(tok, login) IN
    IF ~h.ok
    THEN [id |-> NoId, token |-> h.token, requests |-> h.requests]
    ELSE [id |-> IF lookup.ok THEN lookup.id ELSE NoId,
          token |-> h.token,
          requests |-> Append(h.requests, Request("GET /assets", h.bearer))]

\* The asset lookup of create_work_order_from_input (lines 183-197) and of
\* create_work_activity_from_input (lines 192-200): only when the data has a
\* non-empty string under the key.
AssetLookup(data, key, tok, login, lookup) ==
    IF In(key, data) /\ Get(data, key, PyNone).kind = "str"
       /\ PyTruthy(Get(data, key, PyNone))
    THEN FetchAssetId(tok, login, lookup)
    ELSE [id |-> NoId, token |-> tok, requests |-> <<>>]

\* WorkOrderManager.create_work_order (work_order.py lines 75-141).
create_work_order(description, priority, asset_id, tok, login, post) ==
    LET h == AuthHeaders(tok, login)
        body == [title |-> description, priority |-> priority,
                 days_until_due |-> IF priority # "CRITICAL" THEN 7 ELSE 2,
                 assetId |-> asset_id]
        sent == Append(h.requests, Request("POST /work-orders", h.bearer))
    IN IF ~h.ok
       THEN Outcome("error", "Failed to authenticate", NoId, <<>>, <<>>,
                    h.requests, h.token)
       ELSE CASE post.kind = "created" ->
                   Outcome("success", "", post.id, <<>>, <<body>>, sent, h.token)
              [] post.kind = "failed" ->
                   Outcome("error", "Error creating work order", NoId, <<>>,
                           <<body>>, sent, h.token)
              [] OTHER ->
                   Outcome("raised", "AttributeError", NoId, <<>>, <<body>>,
                           sent, h.token)

\* WorkOrderManager.create_work_order_from_input (work_order.py lines
\* 143-210).  len(description) of line 200 raises TypeError when the
\* description is not a string.
create_work_order_from_input(work_order, tok, login1, lookup, login2, post) ==
    IF work_order = <<>>
    THEN Outcome("skipped", "No problems detected, work order not created",
                 NoId, <<>>, <<>>, <<>>, tok)
    ELSE LET data == Unwrap(work_order, OrderWrapperKeys, OrderFields)
             description == Get(data, "description", PyStr(""))
             priority == Get(data, "priority", PyStr(""))
             asset == AssetLookup(data, "assets", tok, login1, lookup)
         IN IF description.kind # "str"
            THEN Outcome("raised", "TypeError", NoId, data, <<>>,
                         asset.requests, asset.token)
            ELSE LET r == create_work_order(description.text, priority.text,
                                            asset.id, asset.token, login2, post)
                 IN [r EXCEPT !.data = data,
                              !.requests = asset.requests \o r.requests]

\* The duration rule applied to every priority but LOW: LOW activities keep
\* the requested duration.
AdjustDurationNoLow(priority, duration_minutes) ==
    IF priority = "HIGH" \/ priority = "CRITICAL"
    THEN Max(duration_minutes, 180)
    ELSE duration_minutes

\* work_activity.py lines 203-206: the duration adjusted by priority.
AdjustDuration(priority, duration_minutes) ==
    IF priority = "HIGH" \/ priority = "CRITICAL"
    THEN Max(duration_minutes, 180)
    ELSE IF priority = "LOW"
         THEN Min(duration_minutes, 60)
         ELSE duration_minutes

\* WorkActivityManager.create_work_activity (work_activity.py lines 71-140).
create_work_activity(id, duration_minutes, asset_id, tok, login, post) ==
    LET h == AuthHeaders(tok, login)
        body == [workOrderId |-> id, durationMinutes |-> duration_minutes,
                 assetId |-> asset_id]
        sent == Append(h.requests, Request("POST /work-activities", h.bearer))
    IN IF ~h.ok
       THEN Outcome("error", "Failed to authenticate", id, <<>>, <<>>,
                    h.requests, h.token)
       ELSE CASE post.kind = "created" ->
                   Outcome("success", "", id, <<>>, <<body>>, sent, h.token)
              [] post.kind = "failed" ->
                   Outcome("error", "Error creating work activity", id, <<>>,
                           <<body>>, sent, h.token)
              [] OTHER ->
                   Outcome("raised", "AttributeError", id, <<>>, <<body>>,
                           sent, h.token)

\* WorkActivityManager.create_work_activity_from_input (work_activity.py
\* lines 142-219).
create_work_activity_from_input(work_activity, id, tok, login1, lookup, login2, post) ==
    IF work_activity = <<>>
    THEN Outcome("skipped", "No work activity data provided", id, <<>>, <<>>,
                 <<>>, tok)
    ELSE IF NotId(id)
    THEN Outcome("error", "Work order ID is required to create work activity",
                 id, <<>>, <<>>, <<>>, tok)
    ELSE LET data == Unwrap(work_activity, ActivityWrapperKeys, ActivityFields)
             priority == Get(data, "priority", PyStr("MEDIUM"))
             duration_minutes == Get(data, "durationMinutes", PyInt(120))
             asset == AssetLookup(data, "asset", tok, login1, lookup)
             r == create_work_activity(
                      id, AdjustDuration(priority.text, duration_minutes.num),
                      asset.id, asset.token, login2, post)
         IN [r EXCEPT !.data = data,
                      !.requests = asset.requests \o r.requests]

\* Payloads the agent passes to create_work_order: empty; plain, with an
\* asset code; wrapped in 'data'; two qualifying wrappers, the later wrapper
\* key inserted first; a wrapper without an expected field before one with;
\* a wrapper key whose value is no dict; a description that is None.
OrderPayloads ==
    { <<>>,
      <<Entry("description", PyStr("Storm damage")),
        Entry("priority", PyStr("HIGH")), Entry("assets", PyStr("A1"))>>,
      <<Entry("data", PyDict(<<Entry("description", PyStr("Flooded track")),
                               Entry("priority", PyStr("CRITICAL"))>>))>>,
      <<Entry("content", PyDict(<<Entry("notes", PyStr("from content"))>>)),
        Entry("work_order",
              PyDict(<<Entry("description", PyStr("from work_order"))>>))>>,
      <<Entry("data", PyDict(<<Entry("id", PyStr("7"))>>)),
        Entry("fields", PyDict(<<Entry("status", PyStr("NEW"))>>)),
        Entry("description", PyStr("outer"))>>,
      <<Entry("data", PyStr("text")), Entry("description", PyStr("outer"))>>,
      <<Entry("description", PyNone), Entry("priority", PyStr("LOW"))>> }

\* A plain work activity payload with the given priority and duration; ""
\* and 0 stand for a key that is left out.
ActivityPayload(priority, duration_minutes) ==
    <<Entry("description", PyStr("Fix"))>>
    \o (IF priority = "" THEN <<>> ELSE <<Entry("priority", PyStr(priority))>>)
    \o (IF duration_minutes = 0 THEN <<>>
        ELSE <<Entry("durationMinutes", PyInt(duration_minutes))>>)

\* Payloads the agent passes to create_work_activity: empty; plain, of every
\* priority with a short, a long and no duration; a wrapped one whose outer
\* priority differs; one with an asset code.
ActivityPayloads ==
    { <<>> }
    \cup { ActivityPayload(p, d) :
             p \in {"", "HIGH", "CRITICAL", "LOW"}, d \in {0, 30, 240} }
    \cup { ActivityPayload("high", 30),
           <<Entry("work_activity",
                   PyDict(<<Entry("priority", PyStr("LOW")),
                            Entry("durationMinutes", PyInt(240))>>)),
             Entry("priority", PyStr("HIGH"))>>,
           <<Entry("description", PyStr("Fix")), Entry("asset", PyStr("A1"))>> }

\* Answers of the login endpoint while work orders are created.
WorkLogins(tok) ==
    IF UseCache(tok, FALSE)
    THEN { [ok |-> FALSE, token |-> NoToken] }
    ELSE { [ok |-> TRUE, token |-> "jwt1"], [ok |-> FALSE, token |-> NoToken] }

\* The answers of GET /assets that matter: one when no lookup is made.
Lookups(data, key) ==
    IF In(key, data) THEN AssetResponses ELSE { [ok |-> FALSE, id |-> NoId] }

\* Answers of the backend to POST /work-activities.
ActivityResponses ==
    { [kind |-> "created", id |-> 11], [kind |-> "failed", id |-> NoId] }

\* The login requests among the requests of a call.
NumLogins(requests) ==
    Cardinality({ i \in 1..Len(requests) :
                    requests[i].request = "POST /auth/login" })

\* The login requests of the last get_auth_headers() of a call: that call
\* comes last, or just before the GET or POST it authorizes.
LastLogins(requests) ==
    LET n == Len(requests)
        i == IF n > 0 /\ requests[n].request # "POST /auth/login"
             THEN n - 1 ELSE n
    IN IF i >= 1 /\ requests[i].request = "POST /auth/login" THEN 1 ELSE 0

\* The AuthManager after a manager call with outcome r: unchanged when the
\* call did not reach get_auth_headers().
AuthAfter(r) ==
    IF r.requests = <<>> THEN auth
    ELSE [Call("get_auth_headers", FALSE,
               IF Truthy(r.token) THEN <<"Authorization", "Bearer ", r.token>>
               ELSE <<>>,
               LastLogins(r.requests))
            EXCEPT !.sent = auth.sent + NumLogins(r.requests)]

\* A tool call: its argument and what the manager returned.
ToolCall(payload, r) ==
    [payload |-> payload, status |-> r.status, message |-> r.message,
     work_order_id |-> r.work_order_id, data |-> r.data, posted |-> r.posted,
     requests |-> r.requests]

\* The tool function create_work_order of agent.py (lines 238-245): the
\* manager call, then state["work_order_id"] = result.get("work_order_id",
\* None); an exception of the manager call leaves the state as it was.
tool_create_work_order(work_order) ==
    LET data == Unwrap(work_order, OrderWrapperKeys, OrderFields) IN
    \E login1 \in WorkLogins(token), lookup \in Lookups(data, "assets") :
      \E login2 \in WorkLogins(AssetLookup(data, "assets", token, login1,
                                           lookup).token),
         post \in PostResponses :
        LET r == create_work_order_from_input(work_order, token, login1,
                                              lookup, login2, post)
        IN /\ auth.sent + NumLogins(r.requests) <= MaxLogins
           /\ tool' = "create_work_order"
           /\ last_call' = ToolCall(work_order, r)
           /\ last_order' = [status |-> r.status, work_order_id |-> r.work_order_id]
           /\ work_order_id' = IF r.status = "raised" THEN work_order_id
                               ELSE r.work_order_id
           /\ token' = r.token
           /\ auth' = AuthAfter(r)

\* The tool function create_work_activity of agent.py (lines 247-253).
tool_create_work_activity(work_activity) ==
    LET data == Unwrap(work_activity, ActivityWrapperKeys, ActivityFields) IN
    \E login1 \in WorkLogins(token), lookup \in Lookups(data, "asset") :
      \E login2 \in WorkLogins(AssetLookup(data, "asset", token, login1,
                                           lookup).token),
         post \in ActivityResponses :
        LET r == create_work_activity_from_input(
                     work_activity, work_order_id, token, login1, lookup,
                     login2, post)
        IN /\ auth.sent + NumLogins(r.requests) <= MaxLogins
           /\ tool' = "create_work_activity"
           /\ last_call' = ToolCall(work_activity, r)
           /\ token' = r.token
           /\ auth' = AuthAfter(r)
           /\ UNCHANGED <<work_order_id, last_order>>

\* A call that was not made yet.
NoToolCall ==
    [payload |-> <<>>, status |-> "init", message |-> "",
     work_order_id |-> NoId, data |-> <<>>, posted |-> <<>>, requests |-> <<>>]

\* A new session: tool_context.state has no work_order_id.
InitWork ==
    /\ work_order_id = NoId
    /\ tool = "init"
    /\ last_call = NoToolCall
    /\ last_order = [status |-> "init", work_order_id |-> NoId]

\* The work-order layer while it is not used.
IdleWork == InitWork

\* agent.py lines 235-236: both managers are constructed on import, each
\* with AuthManager(); no token is cached.
InitManagers ==
    /\ token = NoToken
    /\ auth = [op |-> "AuthManager", force_refresh |-> FALSE,
               returned |-> NoToken, requests |-> 0, sent |-> 0,
               initialized |-> TRUE, managers |-> 2]

---------------------------------------------------------------------------
(* DetectionProcessor.process (image_analysis/roboflow_detector.py).  A     *)
(* confidence is kept in hundredths (90 is 0.90); "" and 0 stand for a key  *)
(* that is absent, which `or` treats like the empty string and like 0.      *)

MaxDetections == 2   \* longest prediction list of a detection result

\* One prediction of a detection result.
Predictions ==
    { [class |-> "crack", label |-> "", confidence |-> 90, score |-> 0],
      [class |-> "crack", label |-> "rust", confidence |-> 50, score |-> 70],
      [class |-> "", label |-> "rust", confidence |-> 0, score |-> 40],
      [class |-> "", label |-> "", confidence |-> 0, score |-> 0] }

\* The value of a key of the result: absent (get() gives None) or a list.
Absent == [has |-> FALSE, list |-> <<>>]

List(preds) == [has |-> TRUE, list |-> preds]

PredictionLists ==
    UNION { [1..n -> Predictions] : n \in 0..MaxDetections }

KeyValues == { Absent } \cup { List(preds) : preds \in PredictionLists }

\* The detection results process is called with.
DetectionResults == [predictions : KeyValues, detections : KeyValues]

\* a or b on the values of two keys: a when it is a non-empty list, else b.
Or(a, b) == IF a.has /\ a.list # <<>> THEN a ELSE b

\* Lines 123 and 125: the class and the confidence read from a prediction.
ClassOf(p) ==
    IF p.class # "" THEN p.class ELSE IF p.label # "" THEN p.label ELSE "<unknown>"

ConfidenceOf(p) == IF p.confidence # 0 THEN p.confidence ELSE p.score

\* Lines 119-128: the loop over the predictions.
ClassCounts(preds) ==
    [c \in { ClassOf(preds[i]) : i \in 1..Len(preds) } |->
        Cardinality({ i \in 1..Len(preds) : ClassOf(preds[i]) = c })]

RECURSIVE TopConfidence(_)
TopConfidence(preds) ==
    IF preds = <<>> THEN 0
    ELSE LET top == TopConfidence(SubSeq(preds, 1, Len(preds) - 1))
             conf == ConfidenceOf(preds[Len(preds)])
         IN IF conf > top THEN conf ELSE top

\* DetectionProcessor.process, lines 110-134.
process(res) ==
    LET preds == Or(res.predictions, res.detections) IN
    IF ~preds.has
    THEN [raised |-> TRUE, num_detections |-> 0, class_counts |-> <<>>,
          top_confidence |-> 0, detections |-> <<>>]
    ELSE [raised |-> FALSE, num_detections |-> Len(preds.list),
          class_counts |-> ClassCounts(preds.list),
          top_confidence |-> TopConfidence(preds.list),
          detections |-> preds.list]

\* One call of process (by summarize, line 141, or directly).
ProcessCall(res) ==
    /\ detection' = res
    /\ processed' = [called |-> TRUE, returned |-> process(res)]

\* Before the first call.
InitDetect ==
    /\ detection = [predictions |-> Absent, detections |-> Absent]
    /\ processed = [called |-> FALSE, returned |-> process(detection)]

\* The detection processor while it is not used.
IdleDetect == InitDetect

---------------------------------------------------------------------------
(* A load that fails: the table lacks a feature column *)

\* A table without the feature column `missing`: every row keeps its
\* event_id and the values of the other four columns.
DropColumn(df, missing) ==
    [i \in 1..Len(df) |->
        [event_id |-> df[i].event_id,
         features |-> SubSeq(df[i].features, 1, missing - 1)
                      \o SubSeq(df[i].features, missing + 1, NumFeatures)]]

\* Lines 51-55 when events_df[col] raises KeyError at the column `missing`:
\* the entries of the columns before it were already assigned, the entries
\* of the other columns are the ones the dictionary had.
StatsUntil(stats, df, missing) ==
    [c \in 1..Max(Len(stats), missing - 1) |->
        IF c < missing THEN ColumnStats(df, feature_columns[c]) ELSE stats[c]]

\* The line that was reached when load_historical_data(events_df) raises for
\* a table without the column `missing`: 48 has run, the loop of 51-55 has
\* run for the columns before `missing`, 58-60 has not run.
load_missing_column(events_df, missing) ==
    /\ historical_events' = Some(DataFrameCopy(DropColumn(events_df, missing)).rows)
    /\ feature_stats' = StatsUntil(feature_stats, events_df, missing)
    /\ normalized_features' = normalized_features
    /\ result' = [op |-> "load_historical_data", status |-> "raised",
                  value |-> <<>>]
    /\ UNCHANGED <<k, current_event>>

---------------------------------------------------------------------------
(* Specifications *)

LoadStep ==
    \E df \in EventTables :
        load_historical_data(df)
        /\ UNCHANGED <<impactVars, threadVars, riskVars, callerVars, authVars, workVars, detectVars>>

FindStep ==
    \E q \in QueryRows :
        find_similar_events(q)
        /\ UNCHANGED <<impactVars, threadVars, riskVars, callerVars, authVars, workVars, detectVars>>

vars == <<knnVars, impactVars, threadVars, riskVars, callerVars, authVars, workVars, detectVars>>

\* The similarity search: one WeatherKNN, loaded and queried in any order by
\* one caller.
Init == InitKnn /\ IdleImpact /\ IdleThreads /\ IdleRisk /\ IdleCaller /\ IdleAuth
    /\ IdleWork /\ IdleDetect

Next == LoadStep \/ FindStep

Spec == Init /\ [][Next]_vars

\* The impact aggregator: one AssetImpactAnalyzer, queried with any id list.
InitImpact == InitAnalyzer /\ IdleKnn /\ IdleThreads /\ IdleRisk /\ IdleCaller /\ IdleAuth
    /\ IdleWork /\ IdleDetect

NextImpact == AnalyzeStep

SpecImpact == InitImpact /\ [][NextImpact]_vars

\* The similarity search reloaded by one thread while another queries it.
InitReload == InitLoaded /\ IdleImpact /\ IdleRisk /\ IdleCaller /\ IdleAuth
    /\ IdleWork /\ IdleDetect

\* What the two threads leave alone.
otherVars == <<impactVars, riskVars, callerVars, authVars, workVars, detectVars>>

\* One statement of the loading thread.
ReloadStep ==
    \/ \E df \in ReloadTables : ReloadCopy(df) /\ UNCHANGED otherVars
    \/ ReloadStats /\ UNCHANGED otherVars
    \/ ReloadNormalize /\ UNCHANGED otherVars

\* One statement of the querying thread.
QueryStep ==
    \/ \E q \in ReloadQueries : QueryBegin(q) /\ UNCHANGED otherVars
    \/ QueryReadMean /\ UNCHANGED otherVars
    \/ QueryReadStd /\ UNCHANGED otherVars
    \/ QueryLoopStart /\ UNCHANGED otherVars
    \/ QueryReadRow /\ UNCHANGED otherVars
    \/ QueryReadEventId /\ UNCHANGED otherVars

NextReload == ReloadStep \/ QueryStep

SpecReload == InitReload /\ [][NextReload]_vars

\* The risk predictor: one AssetImpactAnalyzer, called with any by_asset_type
\* dictionary on any day.
InitPredict == InitRiskAnalyzer /\ InitRisk /\ IdleKnn /\ IdleThreads /\ IdleCaller /\ IdleAuth
    /\ IdleWork /\ IdleDetect

NextPredict == PredictStep \/ Tick

SpecPredict == InitPredict /\ [][NextPredict]_vars

\* The query operations of both analyzers after the load on import, and the
\* caller changing its own table.
InitQuery == InitQueries /\ InitRisk /\ IdleThreads /\ IdleAuth
    /\ IdleWork /\ IdleDetect

ToolFindStep ==
    \E q \in ReloadQueries :
        find_similar_weather_events(q)
        /\ UNCHANGED <<impactVars, threadVars, riskVars, authVars, workVars, detectVars>>

DetailsStep ==
    \E id \in LookupIds :
        get_event_details(id)
        /\ UNCHANGED <<impactVars, threadVars, riskVars, authVars, workVars, detectVars>>

QueryAnalyzeStep ==
    \E ids \in QueryIdLists :
        analyze_affected_assets(ids)
        /\ UNCHANGED <<knnVars, threadVars, riskVars, callerVars, authVars, workVars, detectVars>>

QueryPredictStep ==
    \E types \in QueryDicts :
        predict_tool(types) /\ UNCHANGED <<knnVars, threadVars, callerVars, authVars, workVars, detectVars>>

CallerStep ==
    CallerMutates /\ UNCHANGED <<impactVars, threadVars, riskVars, authVars, workVars, detectVars>>

NextQuery ==
    ToolFindStep \/ DetailsStep \/ QueryAnalyzeStep \/ QueryPredictStep \/ CallerStep

SpecQuery == InitQuery /\ [][NextQuery]_vars

\* The authentication manager shared by the work-order and work-activity
\* managers.
InitAuthManager ==
    InitAuth /\ InitKnn /\ k = 1 /\ IdleImpact /\ IdleThreads /\ IdleRisk /\ IdleCaller
    /\ IdleWork /\ IdleDetect

authOthers == <<knnVars, impactVars, threadVars, riskVars, callerVars, workVars,
                detectVars>>

NextAuth ==
    \/ AuthManagerNew /\ UNCHANGED authOthers
    \/ \E force_refresh \in BOOLEAN :
          get_jwt_token(force_refresh) /\ UNCHANGED authOthers
    \/ clear_token /\ UNCHANGED authOthers
    \/ get_auth_headers /\ UNCHANGED authOthers

SpecAuth == InitAuthManager /\ [][NextAuth]_vars

\* The similarity search loaded with tables of which some lack a column.
InitLoadFailure ==
    InitKnn /\ IdleImpact /\ IdleThreads /\ IdleRisk /\ IdleCaller /\ IdleAuth
    /\ IdleWork /\ IdleDetect

LoadCompleteStep ==
    \E df \in ReloadTables :
        load_historical_data(df)
        /\ UNCHANGED <<impactVars, threadVars, riskVars, callerVars, authVars, workVars, detectVars>>

LoadRaisesStep ==
    \E df \in ReloadTables, missing \in 1..NumFeatures :
        load_missing_column(df, missing)
        /\ UNCHANGED <<impactVars, threadVars, riskVars, callerVars, authVars, workVars, detectVars>>

NextLoadFailure == LoadCompleteStep \/ LoadRaisesStep

SpecLoadFailure == InitLoadFailure /\ [][NextLoadFailure]_vars

\* One session of the agent: work orders and work activities created in
\* any order with any payload.
InitSession ==
    InitWork /\ InitManagers /\ InitKnn /\ k = 1 /\ IdleImpact /\ IdleThreads
    /\ IdleRisk /\ IdleCaller /\ IdleDetect

workOthers == <<knnVars, impactVars, threadVars, riskVars, callerVars, detectVars>>

OrderStep ==
    \E work_order \in OrderPayloads :
        tool_create_work_order(work_order) /\ UNCHANGED workOthers

ActivityStep ==
    \E work_activity \in ActivityPayloads :
        tool_create_work_activity(work_activity) /\ UNCHANGED workOthers

NextSession == OrderStep \/ ActivityStep

SpecSession == InitSession /\ [][NextSession]_vars

\* The detection processor called with any detection result.
InitDetection ==
    InitDetect /\ InitKnn /\ k = 1 /\ IdleImpact /\ IdleThreads /\ IdleRisk
    /\ IdleCaller /\ IdleAuth /\ IdleWork

ProcessStep ==
    \E res \in DetectionResults :
        ProcessCall(res)
        /\ UNCHANGED <<knnVars, impactVars, threadVars, riskVars, callerVars,
                       authVars, workVars>>

NextDetection == ProcessStep

SpecDetection == InitDetection /\ [][NextDetection]_vars

---------------------------------------------------------------------------
(* Properties of find_similar_events *)

\* The last operation was a find_similar_events call that returned.
FindReturned == result.op = "find_similar_events" /\ result.status = "ok"

\* The distance of every historical row to the last query, in row order,
\* from the analyzer's current fields.
AllDistances ==
    Distances(historical_events.rows, normalized_features.rows,
              ColumnScale(feature_stats),
              NormalizeCurrent(current_event, feature_stats))

\* Position of the event with id `id` in the returned list, 0 if absent.
PosInResult(id) ==
    IF \E p \in 1..Len(result.value) : result.value[p].event_id = id
    THEN CHOOSE p \in 1..Len(result.value) : result.value[p].event_id = id
    ELSE 0

ZeroCell == [nan |-> FALSE, num |-> 0]

\* C1: for a non-empty historical collection of n events, find_similar_events
\* returns exactly min(k, n) (event_id, distance) pairs of distinct
\* historical events, each with its own distance, in non-decreasing order of
\* distance; with k >= n every event of the collection is returned.
C1_MinKSorted ==
    (FindReturned /\ Len(historical_events.rows) > 0) =>
        LET n == Len(historical_events.rows)
            r == result.value
        IN /\ Len(r) = Min(k, n)
           /\ \A p \in 1..Len(r) :
                /\ ~r[p].distance.nan
                /\ \E i \in 1..n : r[p] = AllDistances[i]
           /\ \A p, q \in 1..Len(r) :
                p < q => /\ r[p].distance.d2 <= r[q].distance.d2
                         /\ r[p].event_id # r[q].event_id
           /\ k >= n =>
                \A i \in 1..n : PosInResult(historical_events.rows[i].event_id) > 0

\* C1 witness: k = 2 of n = 3 events returned, at two different distances.
C1_Witness ==
    /\ FindReturned
    /\ Len(historical_events.rows) = 3
    /\ k = 2
    /\ Len(result.value) = 2
    /\ result.value[1].distance.d2 < result.value[2].distance.d2

\* C2: two historical events at equal distance from the query keep their
\* order of the loaded collection in the result, and at the cut-off the
\* earlier one is the one returned: if the later of the two is in the result,
\* the earlier is too, and before it.
C2_StableTies ==
    FindReturned =>
        LET rows == historical_events.rows IN
        \A i, j \in 1..Len(rows) :
            (/\ i < j
             /\ AllDistances[i].distance = AllDistances[j].distance
             /\ PosInResult(rows[j].event_id) > 0)
            => /\ PosInResult(rows[i].event_id) > 0
               /\ PosInResult(rows[i].event_id) < PosInResult(rows[j].event_id)

\* C2 witness: k = 1, the first two rows differ, are equally close to the
\* query and closer than the third; the first one is the one returned.
C2_Witness ==
    /\ FindReturned
    /\ k = 1
    /\ Len(historical_events.rows) = 3
    /\ historical_events.rows[1].features # historical_events.rows[2].features
    /\ AllDistances[1].distance = AllDistances[2].distance
    /\ AllDistances[1].distance.d2 > 0
    /\ AllDistances[1].distance.d2 < AllDistances[3].distance.d2
    /\ result.value = <<AllDistances[1]>>

\* C3: a historical event with the same five feature values as the query is
\* at distance 0 and is preceded in the ranking only by the zero-distance
\* events before it in the collection: with z such events, and z < k, it
\* is the entry z+1 of the result.
C3_DuplicateFirst ==
    FindReturned =>
        LET rows == historical_events.rows IN
        \A i \in 1..Len(rows) :
            rows[i].features = current_event =>
                LET z == Cardinality({ j \in 1..(i - 1) :
                                         AllDistances[j].distance.d2 = 0 })
                IN /\ AllDistances[i].distance = [nan |-> FALSE, d2 |-> 0]
                   /\ z < k =>
                        /\ result.value[z + 1].event_id = rows[i].event_id
                        /\ result.value[z + 1].distance.d2 = 0
                        /\ \A p \in 1..z : result.value[p].distance.d2 = 0

\* C3 witness: the duplicate of the query is the second row, the first row
\* is farther away, and the duplicate heads the result.
C3_Witness ==
    /\ FindReturned
    /\ Len(historical_events.rows) = 3
    /\ historical_events.rows[2].features = current_event
    /\ AllDistances[1].distance.d2 > 0
    /\ result.value[1].event_id = historical_events.rows[2].event_id
    /\ result.value[1].distance.d2 = 0

\* The query with its value in column c replaced by v.
QueryWith(c, v) == [current_event EXCEPT ![c] = v]

\* C4: for a column whose historical std is not > 0 (zero, or NaN for fewer
\* than two rows), every cell of the normalized matrix and the normalized
\* query value are 0, never NaN, and the column adds nothing to a distance:
\* the result does not depend on the query's value in that column.
C4_ZeroStdIsZero ==
    (~historical_events.none /\ ~normalized_features.none) =>
        \A c \in 1..NumFeatures :
            ~StdPositive(feature_stats[c]) =>
                /\ \A i \in 1..Len(normalized_features.rows) :
                        normalized_features.rows[i][c] = ZeroCell
                /\ FindReturned =>
                     /\ NormalizeCurrent(current_event, feature_stats)[c] = ZeroCell
                     /\ \A p \in 1..Len(result.value) : ~result.value[p].distance.nan
                     /\ \A v \in { current_event[c] + 1, 0 } :
                          result.value =
                            FindSimilar(k, historical_events.rows, feature_stats,
                                        normalized_features.rows, QueryWith(c, v))

\* C4 witness: three rows, column 3 constant (std exactly 0) while column 1
\* varies, and a query whose column 3 differs from the historical value.
C4_Witness ==
    /\ FindReturned
    /\ Len(historical_events.rows) = 3
    /\ ~feature_stats[3].std.nan
    /\ feature_stats[3].std.num = 0
    /\ StdPositive(feature_stats[1])
    /\ current_event[3] # historical_events.rows[1].features[3]
    /\ Len(result.value) > 0

---------------------------------------------------------------------------
(* Properties of the impact aggregation *)

\* The last analyze_affected_assets call returned an aggregate.
AnalyzeSucceeded == analysis.status = "success"

AnalyzeCalled == analysis.status # "init"

\* Positions in the incident log of the incidents of the requested events.
Matched == { i \in 1..Len(incidents) : incidents[i].event_id \in event_ids }

\* Whether an incident's asset_code is the code of an asset of the registry.
KnownAsset(i) == \E a \in 1..Len(assets) : assets[a].code = incidents[i].asset_code

MatchedKnown == { i \in Matched : KnownAsset(i) }

RECURSIVE SumField(_, _)
SumField(idx, field) ==
    IF idx = {} THEN 0
    ELSE LET i == CHOOSE x \in idx : TRUE
         IN incidents[i][field] + SumField(idx \ {i}, field)

RECURSIVE SumCounts(_, _)
SumCounts(f, keys) ==
    IF keys = {} THEN 0
    ELSE LET x == CHOOSE y \in keys : TRUE IN f[x] + SumCounts(f, keys \ {x})

\* The sum of the counts of a group-by mapping.
CountTotal(f) == SumCounts(f, DOMAIN f)

\* A sum field of an aggregate, 0 when the aggregate does not carry it.
SumOrZero(agg, field) == IF field \in DOMAIN agg THEN agg[field] ELSE 0

\* C6: with an empty event-id list, or ids that match no incident, the call
\* does not raise and returns total_incidents = 0, unique_assets = 0 and
\* empty by_asset_type, by_criticality, by_damage_severity, high_risk_assets.
C6_EmptyAggregate ==
    (AnalyzeCalled /\ Matched = {}) =>
        /\ AnalyzeSucceeded
        /\ analysis.risk_analysis.total_incidents = 0
        /\ analysis.risk_analysis.unique_assets = 0
        /\ DOMAIN analysis.risk_analysis.by_asset_type = {}
        /\ DOMAIN analysis.risk_analysis.by_criticality = {}
        /\ DOMAIN analysis.risk_analysis.by_damage_severity = {}
        /\ Len(analysis.risk_analysis.high_risk_assets) = 0

\* C6 witness: a non-empty id list none of whose ids matches an incident of
\* a non-empty log.
C6_Witness ==
    /\ AnalyzeSucceeded
    /\ event_ids = {99}
    /\ Len(incidents) = 3
    /\ analysis.risk_analysis.total_incidents = 0

\* C7: every aggregate carries the summed repair cost and the summed
\* downtime of the matched incidents (0 and 0 when none matched).
C7_SumsInEveryAggregate ==
    AnalyzeSucceeded =>
        /\ "total_estimated_cost" \in DOMAIN analysis.risk_analysis
        /\ "total_downtime_hours" \in DOMAIN analysis.risk_analysis
        /\ analysis.risk_analysis.total_estimated_cost
             = SumField(Matched, "repair_cost_usd")
        /\ analysis.risk_analysis.total_downtime_hours
             = SumField(Matched, "downtime_hours")

\* C8: high_risk_assets is in descending order of incident count, assets of
\* equal count in ascending order of asset code, and holds the first 10
\* assets of that ordering (all of them when there are at most 10).
C8_HighRiskRanking ==
    AnalyzeSucceeded =>
        LET h == analysis.risk_analysis.high_risk_assets
            codes == { incidents[i].asset_code : i \in MatchedKnown }
        IN /\ Len(h) = Min(TopN, Cardinality(codes))
           /\ \A p \in 1..Len(h) :
                /\ h[p].code \in codes
                /\ h[p].incident_count
                     = Cardinality({ i \in MatchedKnown :
                                       incidents[i].asset_code = h[p].code })
           /\ \A p, q \in 1..Len(h) :
                p < q =>
                    \/ h[p].incident_count > h[q].incident_count
                    \/ /\ h[p].incident_count = h[q].incident_count
                       /\ CodeRank(h[p].code) < CodeRank(h[q].code)

\* C9 as claimed: incidents that reference no asset of the registry are
\* dropped, so total_incidents, the group-by counts and the cost and
\* downtime sums are those of the matched incidents with a known asset.
C9_UnknownDropped ==
    AnalyzeSucceeded =>
        LET agg == analysis.risk_analysis IN
        /\ agg.total_incidents = Cardinality(MatchedKnown)
        /\ CountTotal(agg.by_asset_type) = Cardinality(MatchedKnown)
        /\ CountTotal(agg.by_criticality) = Cardinality(MatchedKnown)
        /\ CountTotal(agg.by_damage_severity) = Cardinality(MatchedKnown)
        /\ SumOrZero(agg, "total_estimated_cost")
             = SumField(MatchedKnown, "repair_cost_usd")
        /\ SumOrZero(agg, "total_downtime_hours")
             = SumField(MatchedKnown, "downtime_hours")

\* C9 as amended: incidents that reference no asset of the registry are kept
\* by the left join: each counts in total_incidents, in by_damage_severity
\* and in the cost and downtime sums, and only by_asset_type, by_criticality,
\* unique_assets and high_risk_assets leave it out.
C9_UnknownKept ==
    (AnalyzeSucceeded /\ Matched # {}) =>
        LET agg == analysis.risk_analysis IN
        /\ agg.total_incidents = Cardinality(Matched)
        /\ CountTotal(agg.by_damage_severity) = Cardinality(Matched)
        /\ agg.total_estimated_cost = SumField(Matched, "repair_cost_usd")
        /\ agg.total_downtime_hours = SumField(Matched, "downtime_hours")
        /\ CountTotal(agg.by_asset_type) = Cardinality(MatchedKnown)
        /\ CountTotal(agg.by_criticality) = Cardinality(MatchedKnown)
        /\ agg.unique_assets
             = Cardinality({ incidents[i].asset_code : i \in MatchedKnown })
        /\ \A p \in 1..Len(agg.high_risk_assets) :
             \E i \in MatchedKnown :
                incidents[i].asset_code = agg.high_risk_assets[p].code

\* C9 witness: one matched incident of a known asset and one of an unknown
\* asset; the total counts both, by_asset_type only the first.
C9_Witness ==
    /\ AnalyzeSucceeded
    /\ Cardinality(Matched) = 2
    /\ Cardinality(MatchedKnown) = 1
    /\ analysis.risk_analysis.total_incidents = 2
    /\ CountTotal(analysis.risk_analysis.by_asset_type) = 1

\* C10: incidents that reference unknown asset codes never make the
\* aggregation fail: every call returns an aggregate, also when every
\* matched incident references an unknown asset.
C10_UnknownNeverFails ==
    AnalyzeCalled =>
        /\ AnalyzeSucceeded
        /\ analysis.risk_analysis.total_incidents = Len(affected_assets)
        /\ \A p \in 1..Len(analysis.risk_analysis.high_risk_assets) :
             ~analysis.risk_analysis.high_risk_assets[p].raised

\* C10 witness: incidents matched, all of them of unknown assets, and an
\* aggregate returned.
C10_Witness ==
    /\ AnalyzeSucceeded
    /\ Cardinality(Matched) >= 2
    /\ MatchedKnown = {}
    /\ analysis.risk_analysis.total_incidents = Cardinality(Matched)
    /\ Len(analysis.risk_analysis.high_risk_assets) = 0

---------------------------------------------------------------------------
(* Properties of the risk predictor *)

\* The last predict_at_risk_assets call returned a list.
PredictSucceeded == at_risk.status = "success"

PredictCalled == at_risk.status # "init"

\* The asset types that are keys of the by_asset_type argument.
RiskTypes == { by_asset_type[i].type : i \in 1..Len(by_asset_type) }

\* The positions of the returned list that hold the asset with this code.
EntriesOf(code) ==
    { p \in 1..Len(at_risk.all_at_risk) : at_risk.all_at_risk[p].code = code }

\* The asset of the registry with this code (codes are unique).
AssetOf(code) == assets[CHOOSE a \in 1..Len(assets) : assets[a].code = code]

\* The incident count by_asset_type holds for this type.
CountOfType(type) ==
    by_asset_type[CHOOSE i \in 1..Len(by_asset_type) : by_asset_type[i].type = type].count

\* C11: the returned list holds exactly one RiskResult for each asset of the
\* registry whose type is a key of by_asset_type, and none for any other
\* asset: an asset whose type is not a key is absent, not scored as zero.
C11_OnePerMatchingAsset ==
    PredictCalled =>
        /\ PredictSucceeded
        /\ \A a \in 1..Len(assets) :
             Cardinality(EntriesOf(assets[a].code))
               = IF assets[a].type \in RiskTypes THEN 1 ELSE 0
        /\ \A p \in 1..Len(at_risk.all_at_risk) :
             \E a \in 1..Len(assets) :
                /\ assets[a].code = at_risk.all_at_risk[p].code
                /\ assets[a].type = at_risk.all_at_risk[p].type
        /\ at_risk.at_risk_count = Len(at_risk.all_at_risk)

\* C11 witness: by_asset_type has the key Pole only; the two poles are
\* returned, the transformer and the switch are not.
C11_Witness ==
    /\ PredictSucceeded
    /\ RiskTypes = {"Pole"}
    /\ Len(at_risk.all_at_risk) = 2
    /\ EntriesOf("T1") = {}
    /\ EntriesOf("S1") = {}

\* Where an entry is appended before the sort: the position of its type in
\* by_asset_type, then the position of its asset in the registry.
TypeRank(type) == CHOOSE i \in 1..Len(by_asset_type) : by_asset_type[i].type = type

RegistryRank(code) == CHOOSE a \in 1..Len(assets) : assets[a].code = code

AppendedBefore(x, y) ==
    \/ TypeRank(x.type) < TypeRank(y.type)
    \/ TypeRank(x.type) = TypeRank(y.type) /\ RegistryRank(x.code) < RegistryRank(y.code)

\* C12: the returned list is in non-increasing order of risk_score, and the
\* order of assets of equal risk_score is fixed by the arguments: the order
\* of their types in by_asset_type, then their order in the registry.
C12_SortedDeterministicTies ==
    PredictSucceeded =>
        LET r == at_risk.all_at_risk IN
        \A p, q \in 1..Len(r) :
            p < q => \/ r[p].risk_score > r[q].risk_score
                     \/ /\ r[p].risk_score = r[q].risk_score
                        /\ AppendedBefore(r[p], r[q])

\* C12 witness: the transformer and the two poles have the same score; the
\* transformer, whose type comes first in by_asset_type, is first, and the
\* poles follow in registry order (P2 before P1); the second transformer
\* has a lower score and is last.
C12_Witness ==
    /\ PredictSucceeded
    /\ Len(at_risk.all_at_risk) = 4
    /\ at_risk.all_at_risk[4].risk_score < at_risk.all_at_risk[3].risk_score
    /\ at_risk.all_at_risk[1].code = "T1"
    /\ at_risk.all_at_risk[2].code = "P2"
    /\ at_risk.all_at_risk[3].code = "P1"
    /\ at_risk.all_at_risk[1].risk_score = at_risk.all_at_risk[3].risk_score

\* The criticality weight of the four known labels, in hundredths.
KnownWeight(label) ==
    CASE label = "Critical" -> 150
      [] label = "High" -> 120
      [] label = "Medium" -> 100
      [] label = "Low" -> 80

KnownLabels == {"Critical", "High", "Medium", "Low"}

Abs(x) == IF x < 0 THEN -x ELSE x

\* Whether `score` (in hundredths) is the value
\* count*0.4 + ((10 - condition)/10)*30*0.3 + min(age_years/30, 1)*30*0.2
\* + weight*10*0.1 rounded to 2 decimals, for an age of `days` days
\* (age_years = days/365.25) and a weight given in hundredths.
IsRoundedScore(score, count, condition, days, weight) ==
    LET fixed == 40 * count + 90 * (10 - condition) + weight IN
    IF 2 * days >= 21915
    THEN score = fixed + 600
    ELSE 2 * Abs((score - fixed) * 1461 - 80 * days) <= 1461

\* C13: for every scored asset with one of the four known criticality
\* labels, risk_score is the weighted sum of the claim rounded to 2
\* decimals; one incident for the type, condition 3, age 20 years (7305
\* days), criticality High gives 11.9.
C13_ScoreFormula ==
    PredictSucceeded =>
        \A p \in 1..Len(at_risk.all_at_risk) :
            LET r == at_risk.all_at_risk[p]
                a == AssetOf(r.code)
                days == called_on - a.installation_date
            IN a.criticality \in KnownLabels =>
                /\ r.historical_incident_count = CountOfType(a.type)
                /\ IsRoundedScore(r.risk_score, CountOfType(a.type),
                                  a.condition_score, days, KnownWeight(a.criticality))
                /\ (CountOfType(a.type) = 1 /\ a.condition_score = 3
                    /\ days = 7305 /\ a.criticality = "High")
                   => r.risk_score = 1190

\* C13 witness: the asset of the claim's example is scored 11.9.
C13_Witness ==
    /\ PredictSucceeded
    /\ called_on = 0
    /\ \E p \in 1..Len(at_risk.all_at_risk) :
         /\ at_risk.all_at_risk[p].code = "P1"
         /\ at_risk.all_at_risk[p].historical_incident_count = 1
         /\ at_risk.all_at_risk[p].risk_score = 1190

\* The score the list gives the asset with this code.
ScoreIn(returned, code) ==
    returned.all_at_risk[CHOOSE p \in 1..Len(returned.all_at_risk) :
                            returned.all_at_risk[p].code = code].risk_score

CodesIn(returned) ==
    { returned.all_at_risk[p].code : p \in 1..Len(returned.all_at_risk) }

\* C14: two calls with the same by_asset_type dictionary and the same asset
\* registry return the same risk_score for every asset, whatever happens
\* between the two calls.
C14_SameInputsSameScores ==
    (/\ PredictSucceeded
     /\ previous.at_risk.status = "success"
     /\ previous.by_asset_type = by_asset_type)
    => /\ CodesIn(previous.at_risk) = CodesIn(at_risk)
       /\ \A c \in CodesIn(at_risk) :
            ScoreIn(previous.at_risk, c) = ScoreIn(at_risk, c)

\* C15: an asset whose criticality label is none of Critical, High, Medium,
\* Low is scored with the weight 1.0 and no call fails; with an empty
\* by_asset_type (an aggregate of zero incidents) the call returns an empty
\* list.
C15_UnknownLabelAndNoIncidents ==
    PredictCalled =>
        /\ PredictSucceeded
        /\ \A p \in 1..Len(at_risk.all_at_risk) :
             LET r == at_risk.all_at_risk[p]
                 a == AssetOf(r.code)
             IN a.criticality \notin KnownLabels =>
                    IsRoundedScore(r.risk_score, CountOfType(a.type),
                                   a.condition_score, called_on - a.installation_date, 100)
        /\ by_asset_type = <<>> =>
             at_risk.all_at_risk = <<>> /\ at_risk.at_risk_count = 0

\* C15 witness: the call before the last had an empty by_asset_type and
\* returned the empty list, and the last call scored the transformer, whose
\* label is "Urgent".
C15_Witness ==
    /\ PredictSucceeded
    /\ previous.by_asset_type = <<>>
    /\ previous.at_risk.status = "success"
    /\ previous.at_risk.all_at_risk = <<>>
    /\ \E p \in 1..Len(at_risk.all_at_risk) :
         /\ at_risk.all_at_risk[p].code = "T1"
         /\ at_risk.all_at_risk[p].criticality = "Urgent"

---------------------------------------------------------------------------
(* Properties of the lookup, of the empty collection, of the stored state *)

\* The rows of the stored historical table that have this event id.
RowsWithId(id) ==
    { i \in 1..Len(historical_events.rows) : historical_events.rows[i].event_id = id }

\* C16: get_event_details for an identifier that is not in the historical
\* collection fails (no default, no other event's record); for an
\* identifier of the collection it returns the record of that event, and the
\* tool gets the record of every event the search returned.
C16_LookupFailsOrReturnsRecord ==
    /\ details.op = "get_event_details" =>
          IF RowsWithId(details.event_id) = {}
          THEN details.status = "raised" /\ "value" \notin DOMAIN details
          ELSE /\ details.status = "ok"
               /\ details.value.event_id = details.event_id
               /\ \E i \in RowsWithId(details.event_id) :
                    details.value = historical_events.rows[i]
    /\ (details.op = "find_similar_weather_events" /\ FindReturned) =>
          /\ details.status = "success"
          /\ Len(details.similar_events) = Len(result.value)
          /\ \A p \in 1..Len(result.value) :
               /\ details.similar_events[p].event_id = result.value[p].event_id
               /\ \E i \in RowsWithId(result.value[p].event_id) :
                    details.similar_events[p].features
                      = historical_events.rows[i].features

\* C16 witness: the tool returned two events, the first of which is not the
\* first row of the table, each with its own record.
C16_Witness ==
    /\ details.op = "find_similar_weather_events"
    /\ details.status = "success"
    /\ Len(details.similar_events) >= 2
    /\ details.similar_events[1].event_id # historical_events.rows[1].event_id
    /\ details.similar_events[1].features # details.similar_events[2].features

\* C17: after load_historical_data on a collection without events,
\* find_similar_events returns the empty sequence for every query and does
\* not fail.
C17_EmptyCollection ==
    (/\ result.op = "find_similar_events"
     /\ ~historical_events.none
     /\ Len(historical_events.rows) = 0)
    => result.status = "ok" /\ Len(result.value) = 0

\* C17 witness: an empty table is loaded and a query has returned.
C17_Witness ==
    /\ result.op = "find_similar_events"
    /\ result.status = "ok"
    /\ ~historical_events.none
    /\ Len(historical_events.rows) = 0
    /\ Len(current_event) = NumFeatures

\* C18: no query operation (the search, the lookup, the incident join and
\* aggregation, the risk prediction) changes the stored historical events,
\* the feature statistics, the normalized matrix, the asset registry or the
\* incident log, and neither does a change the caller makes to the table it
\* passed to load_historical_data.
C18_QueriesChangeNothing ==
    [][UNCHANGED <<historical_events, feature_stats, normalized_features,
                   assets, incidents>>]_vars

\* C18 witness: the caller has changed its table, the stored table still
\* has the loaded event id, and each query operation has returned.
C18_Witness ==
    /\ Len(caller_df.rows) > 0
    /\ caller_df.rows[1].event_id = 99
    /\ historical_events.rows[1].event_id # 99
    /\ details.op = "find_similar_weather_events"
    /\ details.status = "success"
    /\ analysis.status = "success"
    /\ at_risk.status = "success"

\* The sum of column c over the first n rows, and of its squares.
RECURSIVE TotalTo(_, _, _)
TotalTo(rows, c, n) ==
    IF n = 0 THEN 0 ELSE rows[n].features[c] + TotalTo(rows, c, n - 1)

RECURSIVE SquaresTo(_, _, _)
SquaresTo(rows, c, n) ==
    IF n = 0 THEN 0
    ELSE rows[n].features[c] * rows[n].features[c] + SquaresTo(rows, c, n - 1)

\* Whether column c of the stored table has a sample standard deviation > 0.
Varies(rows, c) ==
    LET n == Len(rows) IN
    n >= 2 /\ n * SquaresTo(rows, c, n) > TotalTo(rows, c, n) * TotalTo(rows, c, n)

\* The z-score of value v in column c of the table, in units of 1/(n*std):
\* (v - mean) * n, and 0 for a column whose std is not > 0.
ZScore(rows, c, v) ==
    IF Varies(rows, c) THEN v * Len(rows) - TotalTo(rows, c, Len(rows)) ELSE 0

\* C19: the feature statistics are the mean and the (sample) standard
\* deviation of the five feature columns of the stored historical events,
\* the normalized matrix is those events normalized with these statistics
\* column by column, and a query is normalized with the same statistics and
\* column order: every returned distance is the distance between the
\* z-scores of the query and of the stored row.
C19_StatisticsOfStoredEvents ==
    ~historical_events.none =>
        LET rows == historical_events.rows
            n == Len(rows)
            scale == ColumnScale(feature_stats)
        IN /\ Len(feature_stats) = NumFeatures
           /\ \A c \in 1..NumFeatures :
                /\ feature_stats[c].mean.nan = (n = 0)
                /\ n > 0 => feature_stats[c].mean.num * n
                               = TotalTo(rows, c, n) * feature_stats[c].mean.den
                /\ feature_stats[c].std.nan = (n < 2)
                /\ n >= 2 => feature_stats[c].std.num * n * (n - 1)
                                = (n * SquaresTo(rows, c, n)
                                   - TotalTo(rows, c, n) * TotalTo(rows, c, n))
                                  * feature_stats[c].std.den
           /\ ~normalized_features.none
           /\ Len(normalized_features.rows) = n
           /\ \A i \in 1..n : \A c \in 1..NumFeatures :
                normalized_features.rows[i][c]
                  = [nan |-> FALSE, num |-> ZScore(rows, c, rows[i].features[c])]
           /\ FindReturned =>
                \A p \in 1..Len(result.value) :
                    \E i \in 1..n :
                        /\ rows[i].event_id = result.value[p].event_id
                        /\ ~result.value[p].distance.nan
                        /\ result.value[p].distance.d2
                             = Sq(ZScore(rows, 1, current_event[1])
                                  - ZScore(rows, 1, rows[i].features[1])) * scale[1]
                               + Sq(ZScore(rows, 2, current_event[2])
                                    - ZScore(rows, 2, rows[i].features[2])) * scale[2]
                               + Sq(ZScore(rows, 3, current_event[3])
                                    - ZScore(rows, 3, rows[i].features[3])) * scale[3]
                               + Sq(ZScore(rows, 4, current_event[4])
                                    - ZScore(rows, 4, rows[i].features[4])) * scale[4]
                               + Sq(ZScore(rows, 5, current_event[5])
                                    - ZScore(rows, 5, rows[i].features[5])) * scale[5]

\* C19 witness: a table of three rows whose first two columns have different
\* means is stored, and a query that is no row of the table has returned.
C19_Witness ==
    /\ FindReturned
    /\ Len(historical_events.rows) = 3
    /\ StdPositive(feature_stats[1])
    /\ StdPositive(feature_stats[2])
    /\ feature_stats[1].mean # feature_stats[2].mean
    /\ \A i \in 1..3 : historical_events.rows[i].features # current_event
    /\ Len(result.value) > 0

---------------------------------------------------------------------------
(* Property of the authentication manager *)

\* C20: while a token is cached, get_jwt_token() without force_refresh
\* returns it and get_auth_headers() returns its header, neither sends a
\* login request nor changes the cached token; only clear_token() and a
\* call that logs in change it; get_jwt_token(force_refresh=True) always
\* sends a login request.
C20_TokenCached ==
    [][/\ (Truthy(token) /\ auth'.op = "get_jwt_token" /\ ~auth'.force_refresh)
          => /\ auth'.returned = token
             /\ auth'.requests = 0
             /\ token' = token
       /\ (Truthy(token) /\ auth'.op = "get_auth_headers")
          => /\ auth'.returned = <<"Authorization", "Bearer ", token>>
             /\ auth'.requests = 0
             /\ token' = token
       /\ (auth'.op = "get_jwt_token" /\ auth'.force_refresh)
          => auth'.requests = 1 /\ auth'.sent = auth.sent + 1
       /\ token' # token
          => \/ auth'.op = "clear_token"
             \/ auth'.op \in {"get_jwt_token", "get_auth_headers"}
                /\ auth'.requests = 1]_vars

\* C20 witness: two managers share the instance, two login requests were
\* sent so far (the second one forced or after a clear), a token is cached, and
\* the last call, get_auth_headers(), returned its header without a request.
C20_Witness ==
    /\ auth.op = "get_auth_headers"
    /\ auth.managers = 2
    /\ auth.sent = 2
    /\ auth.requests = 0
    /\ token = "jwt2"
    /\ auth.returned = <<"Authorization", "Bearer ", "jwt2">>

---------------------------------------------------------------------------
(* Consistency of the group-by counts with the total *)

\* The incident counts of the entries of high_risk_assets, added up.
RECURSIVE SumIncidentCounts(_)
SumIncidentCounts(h) ==
    IF h = <<>> THEN 0 ELSE Head(h).incident_count + SumIncidentCounts(Tail(h))

\* The matched incidents whose asset_code is the code of no registry asset.
MatchedUnknown == Matched \ MatchedKnown

\* C27 as claimed: in every aggregate with total_incidents > 0 the counts of
\* by_asset_type, of by_criticality and of by_damage_severity each sum to
\* total_incidents, the incident counts of the affected assets sum to
\* total_incidents, and unique_assets is the number of distinct asset codes
\* among the matched incidents.
C27_CountsSumToTotal ==
    (AnalyzeSucceeded /\ analysis.risk_analysis.total_incidents > 0) =>
        LET agg == analysis.risk_analysis IN
        /\ CountTotal(agg.by_asset_type) = agg.total_incidents
        /\ CountTotal(agg.by_criticality) = agg.total_incidents
        /\ CountTotal(agg.by_damage_severity) = agg.total_incidents
        /\ SumIncidentCounts(agg.high_risk_assets) = agg.total_incidents
        /\ agg.unique_assets
             = Cardinality({ incidents[i].asset_code : i \in Matched })

\* C27 as amended: by_damage_severity sums to total_incidents; by_asset_type,
\* by_criticality and the incident counts of the affected assets each fall
\* short of total_incidents by the number of matched incidents of unknown
\* assets, and unique_assets falls short of the number of distinct asset
\* codes by the number of distinct unknown codes; all are equal to the total
\* when every matched incident references an asset of the registry.
C27_CountsShortByUnknown ==
    (AnalyzeSucceeded /\ analysis.risk_analysis.total_incidents > 0) =>
        LET agg == analysis.risk_analysis
            unknown == Cardinality(MatchedUnknown)
        IN /\ CountTotal(agg.by_damage_severity) = agg.total_incidents
           /\ CountTotal(agg.by_asset_type) + unknown = agg.total_incidents
           /\ CountTotal(agg.by_criticality) + unknown = agg.total_incidents
           /\ SumIncidentCounts(agg.high_risk_assets) + unknown
                = agg.total_incidents
           /\ agg.unique_assets
                + Cardinality({ incidents[i].asset_code : i \in MatchedUnknown })
                = Cardinality({ incidents[i].asset_code : i \in Matched })

\* C27 witness: three matched incidents, two of registry assets and one of
\* an unknown asset: the total is 3 and by_criticality sums to 2.
C27_Witness ==
    /\ AnalyzeSucceeded
    /\ analysis.risk_analysis.total_incidents = 3
    /\ Cardinality(MatchedUnknown) = 1
    /\ CountTotal(analysis.risk_analysis.by_criticality) = 2
    /\ CountTotal(analysis.risk_analysis.by_damage_severity) = 3

---------------------------------------------------------------------------
(* Properties of the work-order layer *)

\* The last tool call was create_work_activity / create_work_order.
ActivityCalled == tool = "create_work_activity"

OrderCalled == tool = "create_work_order"

\* C21: create_work_activity_from_input called with non-empty activity data
\* but no work order id (None or 0) returns status 'error' with the message
\* 'Work order ID is required to create work activity' and sends no request
\* to the backend: no login, no asset lookup, no POST.
C21_NoIdNoRequest ==
    (/\ ActivityCalled
     /\ last_call.payload # <<>>
     /\ (work_order_id = NoId \/ work_order_id = 0)) =>
        /\ last_call.status = "error"
        /\ last_call.message = "Work order ID is required to create work activity"
        /\ last_call.requests = <<>>
        /\ last_call.posted = <<>>

\* C21 witness: the last work order was created with the id 0, and an
\* activity with an asset code was refused without any request.
C21_Witness ==
    /\ ActivityCalled
    /\ last_order.status = "success"
    /\ work_order_id = 0
    /\ In("asset", last_call.payload)
    /\ last_call.status = "error"
    /\ last_call.requests = <<>>

\* C22: the duration posted for a work activity is max(requested, 180) for
\* priority HIGH or CRITICAL, min(requested, 60) for LOW, and the requested
\* duration for any other priority, the requested duration being 120 when
\* none is given; so no HIGH or CRITICAL activity is posted with less than
\* 180 minutes and no LOW activity with more than 60.
C22_DurationByPriority ==
    (ActivityCalled /\ last_call.posted # <<>>) =>
        LET priority == Get(last_call.data, "priority", PyStr("MEDIUM")).text
            requested == IF In("durationMinutes", last_call.data)
                         THEN Get(last_call.data, "durationMinutes", PyNone).num
                         ELSE 120
            sent == last_call.posted[1].durationMinutes
        IN /\ priority \in {"HIGH", "CRITICAL"} =>
                /\ sent >= 180
                /\ sent = IF requested > 180 THEN requested ELSE 180
           /\ priority = "LOW" =>
                /\ sent <= 60
                /\ sent = IF requested < 60 THEN requested ELSE 60
           /\ priority \notin {"HIGH", "CRITICAL", "LOW"} => sent = requested

\* C22 witness: a LOW activity that asked for 240 minutes was posted with 60.
C22_Witness ==
    /\ ActivityCalled
    /\ last_call.status = "success"
    /\ Get(last_call.data, "priority", PyNone).text = "LOW"
    /\ Get(last_call.data, "durationMinutes", PyNone).num = 240
    /\ last_call.posted[1].durationMinutes = 60

\* The wrapper keys and the field names as the claim lists them.
ClaimedWrappers == <<"data", "work_order", "payload", "fields", "content">>

ClaimedFields == {"description", "notes", "priority", "status", "type"}

\* Whether the payload has the i-th wrapper key with a dict that contains
\* one of the fields.
Qualifies(payload, i) ==
    \E e \in 1..Len(payload) :
        /\ payload[e].key = ClaimedWrappers[i]
        /\ payload[e].value.kind = "dict"
        /\ \E f \in 1..Len(payload[e].value.items) :
              payload[e].value.items[f].key \in ClaimedFields

\* C23: create_work_order_from_input reads the fields from the first of the
\* wrappers data, work_order, payload, fields, content (tried in that order)
\* whose value is a dict containing at least one of description, notes,
\* priority, status, type, and from the payload itself if no wrapper
\* qualifies; an empty payload returns 'skipped' and creates nothing.
C23_WrappedOrPlain ==
    OrderCalled =>
        IF last_call.payload = <<>>
        THEN /\ last_call.status = "skipped"
             /\ last_call.requests = <<>>
             /\ last_call.posted = <<>>
        ELSE /\ (\A i \in 1..Len(ClaimedWrappers) : ~Qualifies(last_call.payload, i))
                  => last_call.data = last_call.payload
             /\ \A i \in 1..Len(ClaimedWrappers) :
                  (/\ Qualifies(last_call.payload, i)
                   /\ \A j \in 1..(i - 1) : ~Qualifies(last_call.payload, j))
                     => \E e \in 1..Len(last_call.payload) :
                           /\ last_call.payload[e].key = ClaimedWrappers[i]
                           /\ last_call.data = last_call.payload[e].value.items
             /\ last_call.posted # <<>> =>
                  /\ last_call.posted[1].title
                       = Get(last_call.data, "description", PyStr("")).text
                  /\ last_call.posted[1].priority
                       = Get(last_call.data, "priority", PyStr("")).text

\* C23 witness: a payload whose 'data' wrapper holds no expected field and
\* whose 'fields' wrapper does: the work order was created from 'fields',
\* not from 'data' and not from the payload's own description.
C23_Witness ==
    /\ OrderCalled
    /\ last_call.status = "success"
    /\ In("data", last_call.payload)
    /\ In("description", last_call.payload)
    /\ ~Qualifies(last_call.payload, 1)
    /\ Qualifies(last_call.payload, 4)
    /\ last_call.data = Get(last_call.payload, "fields", PyNone).items
    /\ last_call.posted[1].title = ""

\* C25: within one session a work activity is posted only with the work
\* order id returned by the most recent create_work_order call, and only if
\* that call succeeded; after a failed or skipped work order creation the
\* stored work_order_id is cleared, so every following create_work_activity
\* (with activity data) returns an error until a work order is created.
C25_ActivityOnlyForLastOrder ==
    /\ (ActivityCalled /\ last_call.posted # <<>>) =>
          /\ last_order.status = "success"
          /\ last_call.posted[1].workOrderId = last_order.work_order_id
    /\ last_order.status \notin {"init", "success"} => work_order_id = NoId
    /\ (/\ ActivityCalled
        /\ last_order.status # "success"
        /\ last_call.payload # <<>>) => last_call.status = "error"

---------------------------------------------------------------------------
(* Property of the detection processor *)

\* The list the claim counts: the value of 'predictions' when the result
\* has that key, else the value of 'detections'.
ClaimedPredictions ==
    IF detection.predictions.has THEN detection.predictions.list
    ELSE detection.detections.list

\* C24: process raises DetectionError only when the result has neither a
\* 'predictions' nor a 'detections' key; for every result that has one of
\* them, an empty list included, it returns num_detections equal to the
\* number of predictions, class_counts whose values sum to num_detections,
\* and top_confidence equal to the largest confidence (0.0 when there is
\* none).
C24_RaisesOnlyWithoutKeys ==
    processed.called =>
        LET out == processed.returned IN
        /\ out.raised <=> (~detection.predictions.has /\ ~detection.detections.has)
        /\ ~out.raised =>
             /\ out.num_detections = Len(ClaimedPredictions)
             /\ CountTotal(out.class_counts) = out.num_detections
             /\ \A i \in 1..Len(ClaimedPredictions) :
                   out.top_confidence >= ConfidenceOf(ClaimedPredictions[i])
             /\ \/ out.top_confidence = 0
                \/ \E i \in 1..Len(ClaimedPredictions) :
                      out.top_confidence = ConfidenceOf(ClaimedPredictions[i])

---------------------------------------------------------------------------
(* Property of a load that fails *)

\* C26: a load_historical_data call that fails (the table lacks one of the
\* five feature columns) leaves the analyzer unchanged: the stored
\* historical events, the feature statistics and the normalized matrix are
\* those before the call.
C26_FailedLoadChangesNothing ==
    [][(result'.op = "load_historical_data" /\ result'.status = "raised")
          => /\ historical_events' = historical_events
             /\ feature_stats' = feature_stats
             /\ normalized_features' = normalized_features]_vars

---------------------------------------------------------------------------
(* Bounds of the risk score *)

\* C28: for every scored asset with condition_score in 0..10 the age
\* component is between 0 and 1 whatever the installation date, so the
\* reported risk_score lies between incident_count*0.4 + 0.8 and
\* incident_count*0.4 + 16.5, and of two scored assets of the same type,
\* criticality and condition the older one never scores lower.
C28_ScoreBounds ==
    PredictSucceeded =>
        LET all == at_risk.all_at_risk IN
        /\ \A p \in 1..Len(all) :
             all[p].condition_score \in 0..10 =>
                LET age == AgeTerm(called_on - all[p].installation_date) IN
                /\ 0 <= age.num
                /\ age.num <= 600 * age.den
                /\ all[p].risk_score >= 40 * all[p].historical_incident_count + 80
                /\ all[p].risk_score <= 40 * all[p].historical_incident_count + 1650
        /\ \A p, q \in 1..Len(all) :
             (/\ all[p].type = all[q].type
              /\ all[p].criticality = all[q].criticality
              /\ all[p].condition_score = all[q].condition_score
              /\ all[p].installation_date <= all[q].installation_date)
                => all[p].risk_score >= all[q].risk_score

---------------------------------------------------------------------------
(* Property of a failed login *)

\* The last call was a get_jwt_token that sent a login request and returned
\* None.
LoginReturnedNone ==
    auth.op = "get_jwt_token" /\ auth.requests = 1 /\ auth.returned = NoToken

\* C29: when get_jwt_token(force_refresh=True), or a login after
\* clear_token, fails, it returns None and no token stays cached: a
\* get_auth_headers() that sends no login request of its own returns {}, so
\* later calls do not keep using a token from before the failed refresh.
C29_FailedLoginLeavesNoToken ==
    LoginReturnedNone =>
        /\ ~Truthy(token)
        /\ JwtToken(token, FALSE, [ok |-> FALSE, token |-> NoToken]).returned
             = NoToken

---------------------------------------------------------------------------
(* Property of a reload during a query *)

\* C5: a find_similar_events call that runs while the data is reloaded reads
\* the historical table, the feature statistics and the normalized matrix of
\* one and the same load.
C5_ConsistentSnapshot ==
    reader.pc = "done" =>
        /\ result.status = "ok"
        /\ \E df \in ReloadTables : SnapshotOf(reader, df)

===========================================================================
